---- MODULE Spec2Model ----
(***************************************************************************)
(* Model of the ImHex "Find" view (view_find.cpp): the pattern parsers,    *)
(* the match engines running as a cancellable task, and the per-provider   *)
(* result state kept by the view.                                          *)
(*                                                                         *)
(* Addresses are absolute; a provider's base address is 0, so the byte at  *)
(* address a of provider p is data[p][a + 1].                              *)
(***************************************************************************)
EXTENDS Integers, Sequences, FiniteSets, TLC

VARIABLES
    data,               \* provider -> its bytes
    provider,           \* the provider the running engine scans
    searchRegion,       \* Region { address, size } handed to the engine
    mode,               \* SearchSettings::Mode of the running engine
    settings,           \* the engine's settings struct
    pc,                 \* position of the engine: "start", "scan", "done", "interrupted", "idle"
    it,                 \* reader / iterator address
    results,            \* occurrences appended so far
    progress,           \* last value handed to task.update
    matchedBytes,       \* searchBinaryPattern
    countedCharacters,  \* searchStrings
    startAddress,       \* searchStrings
    bytes,              \* searchValue: the rolling window, most recent byte last
    validBytes,         \* searchValue
    address,            \* searchValue
    shouldInterrupt,    \* Task: interruption requested
    stringOccurrences,  \* searchRegex: the occurrences its call of searchStrings returned
    occurrenceIndex,    \* searchRegex: the place of its loop in stringOccurrences
    input,              \* text of the input field being edited (character codes)
    inputType,          \* SearchSettings::Value::Type selected in the value tab
    parsed,             \* what the parser returned for the input
    m_searchSettings,   \* the selected tab (mode) and the contents of the tabs' fields
    m_settingsValid,    \* what the tab drawn last made of its settings
    selection,          \* ImHexApi::HexEditor::getSelection(): a region, or NoSelection
    sortSpecs,          \* ImGui::TableGetSortSpecs(): the column and direction of the table
    popupFind,          \* the members of the hex editor's PopupFind and its find tasks
    findLog,            \* history: the triggers of the find popup and the ones a task ran for
    query,              \* the highlight or tooltip callback in progress, or the last one's answer
    s_events,           \* EventManager: the list of (event id, event object) pairs
    s_tokenStore,       \* EventManager: token -> iterator into s_events (the node's event object)
    callbacks,          \* history: event object -> the token and event it was subscribed with
    posted,             \* history: the post performed by the last step, if it was one
    currentProvider,    \* ImHexApi::Provider::get()
    m_foundOccurrences, \* provider -> occurrences of its last completed search
    m_sortedOccurrences,\* provider -> working copy: the vector's storage and its size
    m_occurrenceTree,   \* provider -> intervals of the occurrence index
    m_currFilter,       \* provider -> filter text
    m_decodeSettings,   \* SearchSettings::Mode the values are decoded with
    filterTasks,        \* the filter tasks that have not ended yet, oldest first
    beforeSearch,       \* history: the stored results when the search task was created
    submittedProvider,  \* history: the provider that was selected when Search was pressed
    maxValue,           \* Task: the total work the search task was created with
    untouched,          \* history: nothing but the search task wrote results since then
    filterLog           \* history: filter texts entered since the results were last stored

engineVars == <<data, provider, searchRegion, mode, settings, pc, it, results, progress,
                matchedBytes, countedCharacters, startAddress, bytes, validBytes, address,
                shouldInterrupt, stringOccurrences, occurrenceIndex>>

\* the fields and the flag of the tabs
tabVars == <<m_searchSettings, m_settingsValid, selection, sortSpecs, popupFind, findLog>>

\* what neither a search engine nor the stored results touch
\* the event manager
eventVars == <<s_events, s_tokenStore, callbacks, posted>>

parseVars == <<input, inputType, parsed, tabVars, query, eventVars>>

sessionVars == <<currentProvider, m_foundOccurrences, m_sortedOccurrences, m_occurrenceTree,
                 m_currFilter, m_decodeSettings, filterTasks, beforeSearch, submittedProvider, maxValue,
                 untouched, filterLog>>

vars == <<engineVars, parseVars, sessionVars>>

-----------------------------------------------------------------------------
(* Bounds *)

MaxData == 4        \* largest provider size
MaxPattern == 2     \* longest byte sequence searched for

-----------------------------------------------------------------------------
(* Helpers *)

Providers == {"P", "Q"}

Min(S) == CHOOSE x \in S : \A y \in S : x <= y

SeqsUpTo(S, n) == UNION {[1..k -> S] : k \in 1..n}

Region(addr, size) == [address |-> addr, size |-> size]

\* every non-empty region inside a provider of the given size
RegionsOf(size) == {Region(a, n) : a \in 0..(size - 1), n \in 1..size} \cap
                   {r \in [address : 0..size, size : 1..size] : r.address + r.size <= size}

Occurrence(addr, size, decodeType, endian) ==
    [region |-> Region(addr, size), decodeType |-> decodeType, endian |-> endian]

\* provider->read of one byte
ReadByte(a) == data[provider][a + 1]

\* reader.end().getAddress() after reader.setEndAddress(searchRegion.getEndAddress())
ReaderEnd == searchRegion.address + searchRegion.size

OtherData == [p \in Providers |-> <<0>>]

\* the input fields while no parser is exercised
\* std::nullopt
NoSelection == [address |-> 0, size |-> 0]

\* the table before a column header was clicked
NoSortSpecs == [column |-> "none", direction |-> "none"]

\* PopupFind(): the members as their initialisers leave them, and no find task
PopupFindOpened ==
    [m_input |-> <<>>, m_shouldSearch |-> FALSE, m_backwards |-> FALSE,
     m_reachedEnd |-> FALSE, m_requestFocus |-> TRUE, hasSearchPosition |-> FALSE,
     tasks |-> <<>>]

\* no trigger yet
NoFindLog == [trigger |-> 0, started |-> <<>>]

TabsIdle ==
    /\ m_searchSettings = [range |-> "EntireData", mode |-> "Strings", sequence |-> <<>>,
                           input |-> <<>>, pattern |-> <<>>, inputMin |-> <<>>, inputMax |-> <<>>,
                           type |-> "U8"]
    /\ m_settingsValid = TRUE
    /\ selection = NoSelection
    /\ sortSpecs = NoSortSpecs
    /\ popupFind = PopupFindOpened
    /\ findLog = NoFindLog

\* no callback of the hex editor was called yet
NoQuery == [stage |-> "idle", kind |-> "none", address |-> 0, result |-> <<>>, readTree |-> FALSE]

NoPost == [event |-> "none", invoked |-> <<>>]

\* nothing has subscribed
EventsIdle == s_events = <<>> /\ s_tokenStore = <<>> /\ callbacks = <<>> /\ posted = NoPost

ParseIdle ==
    input = <<>> /\ inputType = "U8" /\ parsed = <<>> /\ TabsIdle /\ query = NoQuery /\ EventsIdle

\* std::vector: its allocated storage and the number of elements in use
Vector(slots, size) == [slots |-> slots, size |-> size]

NoSnapshot ==
    [found |-> [p \in Providers |-> <<>>], sorted |-> [p \in Providers |-> Vector(<<>>, 0)],
     tree |-> [p \in Providers |-> <<>>]]

\* the view while no session is exercised
SessionIdle ==
    /\ currentProvider = "P"
    /\ m_foundOccurrences = [p \in Providers |-> <<>>]
    /\ m_sortedOccurrences = [p \in Providers |-> Vector(<<>>, 0)]
    /\ m_occurrenceTree = [p \in Providers |-> <<>>]
    /\ m_currFilter = [p \in Providers |-> <<>>]
    /\ m_decodeSettings = "Strings"
    /\ filterTasks = <<>>
    /\ beforeSearch = NoSnapshot
    /\ submittedProvider = "P"
    /\ maxValue = 0
    /\ untouched = TRUE
    /\ filterLog = <<>>

\* the engine while no search is exercised
EngineIdle ==
    /\ data = OtherData /\ provider = "P" /\ searchRegion = Region(0, 1)
    /\ mode = "Sequence" /\ settings = [sequence |-> <<>>] /\ pc = "idle"
    /\ it = 0 /\ results = <<>> /\ progress = 0
    /\ matchedBytes = 0 /\ countedCharacters = 0 /\ startAddress = 0
    /\ bytes = <<>> /\ validBytes = 0 /\ address = 0
    /\ shouldInterrupt = FALSE
    /\ stringOccurrences = <<>> /\ occurrenceIndex = 0

-----------------------------------------------------------------------------
(* searchSequence *)

\* std::search(first, last, searcher): address of the first whole occurrence, or last
RECURSIVE StdSearch(_, _, _)
StdSearch(first, last, pat) ==
    IF first + Len(pat) > last THEN last
    ELSE IF \A j \in 1..Len(pat) : ReadByte(first + j - 1) = pat[j] THEN first
    ELSE StdSearch(first + 1, last, pat)

SeekAfterMatchSkipping(addr, pat) == addr + Len(pat)

\* reader.seek(address + 1)
SeekAfterMatch(addr, pat) == addr + 1

searchSequenceBegin ==
    /\ mode = "Sequence" /\ pc = "start"
    /\ it' = searchRegion.address
    /\ progress' = 0
    /\ results' = <<>>
    /\ pc' = IF settings.sequence = <<>> THEN "done" ELSE "scan"
    /\ UNCHANGED <<data, stringOccurrences, occurrenceIndex,
                   provider, searchRegion, mode, settings, matchedBytes,
                   countedCharacters, startAddress, bytes, validBytes, address, shouldInterrupt,
                   parseVars, sessionVars>>

searchSequence ==
    /\ mode = "Sequence" /\ pc = "scan"
    /\ IF shouldInterrupt
       THEN /\ pc' = "interrupted"
            /\ UNCHANGED <<it, results, progress>>
       ELSE LET occurrence == StdSearch(it, ReaderEnd, settings.sequence) IN
            IF occurrence = ReaderEnd
            THEN /\ pc' = "done"
                 /\ UNCHANGED <<it, results, progress>>
            ELSE /\ it' = SeekAfterMatch(occurrence, settings.sequence)
                 /\ results' = Append(results, Occurrence(occurrence, Len(settings.sequence), "Binary", "native"))
                 /\ progress' = occurrence - searchRegion.address
                 /\ pc' = "scan"
    /\ UNCHANGED <<data, stringOccurrences, occurrenceIndex,
                   provider, searchRegion, mode, settings, matchedBytes,
                   countedCharacters, startAddress, bytes, validBytes, address, shouldInterrupt,
                   parseVars, sessionVars>>

SeqAlphabet == {97, 98}

InitSequence ==
    /\ \E d \in SeqsUpTo(SeqAlphabet, MaxData) : data = [OtherData EXCEPT !["P"] = d]
    /\ provider = "P"
    /\ searchRegion \in RegionsOf(Len(data["P"]))
    /\ mode = "Sequence"
    /\ \E s \in SeqsUpTo(SeqAlphabet, MaxPattern) \cup {<<>>} : settings = [sequence |-> s]
    /\ pc = "start"
    /\ it = 0 /\ results = <<>> /\ progress = 0
    /\ matchedBytes = 0 /\ countedCharacters = 0 /\ startAddress = 0
    /\ bytes = <<>> /\ validBytes = 0 /\ address = 0
    /\ shouldInterrupt = FALSE
    /\ stringOccurrences = <<>> /\ occurrenceIndex = 0
    /\ ParseIdle
    /\ SessionIdle

NextSequence == searchSequenceBegin \/ searchSequence

SpecSequence == InitSequence /\ [][NextSequence]_vars

\* the addresses inside the search region at which the whole pattern lies in the region and equals the bytes there
SequenceHits(pat) ==
    {a \in searchRegion.address..(ReaderEnd - 1) :
        /\ a + Len(pat) <= ReaderEnd
        /\ \A j \in 1..Len(pat) : data[provider][a + j] = pat[j]}

\* C1: for a non-empty pattern, searchSequence returns one occurrence of the pattern's size at
\* every address of the range where the range's bytes equal the pattern (overlapping ones
\* included) and no occurrence anywhere else.
C1_SequenceFindsAll ==
    (mode = "Sequence" /\ pc = "done" /\ settings.sequence # <<>>) =>
        /\ {results[i].region.address : i \in 1..Len(results)} = SequenceHits(settings.sequence)
        /\ Len(results) = Cardinality(SequenceHits(settings.sequence))
        /\ \A i \in 1..Len(results) : results[i].region.size = Len(settings.sequence)

\* "aa" over "aaaa" has been searched and gave the overlapping addresses 0, 1 and 2
C1_Witness ==
    /\ mode = "Sequence" /\ pc = "done"
    /\ settings.sequence = <<97, 97>>
    /\ data[provider] = <<97, 97, 97, 97>> /\ searchRegion = Region(0, 4)
    /\ [i \in 1..Len(results) |-> results[i].region.address] = <<0, 1, 2>>

-----------------------------------------------------------------------------
(* searchBinaryPattern *)

RECURSIVE BitAndN(_, _, _)
BitAndN(x, y, n) ==
    IF n = 0 THEN 0
    ELSE (IF x % 2 = 1 /\ y % 2 = 1 THEN 1 ELSE 0) + 2 * BitAndN(x \div 2, y \div 2, n - 1)

\* byte & mask on u8 operands
BitAnd(x, y) == BitAndN(x, y, 8)

BinaryPattern(mask, value) == [mask |-> mask, value |-> value]

RewindNone(iter, matched) == iter

\* a rewind to the byte before the one the failed attempt started at
RewindBeforeAttempt(iter, matched) == iter - matched - 1

\* if (matchedBytes > 0) it -= matchedBytes;
Rewind(iter, matched) == IF matched > 0 THEN iter - matched ELSE iter

searchBinaryPatternBegin ==
    /\ mode = "BinaryPattern" /\ pc = "start"
    /\ it' = searchRegion.address
    /\ matchedBytes' = 0
    /\ progress' = 0
    /\ results' = <<>>
    /\ pc' = "scan"
    /\ UNCHANGED <<data, stringOccurrences, occurrenceIndex,
                   provider, searchRegion, mode, settings,
                   countedCharacters, startAddress, bytes, validBytes, address, shouldInterrupt,
                   parseVars, sessionVars>>

\* one iteration of the for loop, its ++it included; the loop exit returns the results
searchBinaryPattern ==
    /\ mode = "BinaryPattern" /\ pc = "scan"
    /\ IF it = ReaderEnd
       THEN /\ pc' = "done"
            /\ UNCHANGED <<it, matchedBytes, results, progress>>
       ELSE IF shouldInterrupt
       THEN /\ pc' = "interrupted"
            /\ UNCHANGED <<it, matchedBytes, results, progress>>
       ELSE LET byte == ReadByte(it)
                patternSize == Len(settings.pattern)
                entry == settings.pattern[matchedBytes + 1]
            IN  /\ pc' = "scan"
                /\ IF BitAnd(byte, entry.mask) = entry.value
                   THEN IF matchedBytes + 1 = patternSize
                        THEN LET occurrenceAddress == it - (patternSize - 1) IN
                             /\ results' = Append(results, Occurrence(occurrenceAddress, patternSize, "Binary", "native"))
                             /\ progress' = occurrenceAddress
                             /\ it' = occurrenceAddress + 1
                             /\ matchedBytes' = 0
                        ELSE /\ matchedBytes' = matchedBytes + 1
                             /\ it' = it + 1
                             /\ UNCHANGED <<results, progress>>
                   ELSE /\ it' = Rewind(it, matchedBytes) + 1
                        /\ matchedBytes' = 0
                        /\ UNCHANGED <<results, progress>>
    /\ UNCHANGED <<data, stringOccurrences, occurrenceIndex,
                   provider, searchRegion, mode, settings,
                   countedCharacters, startAddress, bytes, validBytes, address, shouldInterrupt,
                   parseVars, sessionVars>>

BinAlphabet == {222, 173}      \* DE AD

\* DE, AD, ??, ?E
BinEntries == {BinaryPattern(255, 222), BinaryPattern(255, 173), BinaryPattern(0, 0), BinaryPattern(15, 14)}

\* bytes DE AD DE AD BE EF searched for DE AD ?? EF
BinExampleData == <<222, 173, 222, 173, 190, 239>>
BinExamplePattern == <<BinaryPattern(255, 222), BinaryPattern(255, 173), BinaryPattern(0, 0), BinaryPattern(255, 239)>>

InitBinaryPattern ==
    /\ \/ /\ \E d \in SeqsUpTo(BinAlphabet, MaxData) : data = [OtherData EXCEPT !["P"] = d]
          /\ searchRegion \in RegionsOf(Len(data["P"]))
          /\ \E s \in SeqsUpTo(BinEntries, MaxPattern) : settings = [pattern |-> s]
       \/ /\ data = [OtherData EXCEPT !["P"] = BinExampleData]
          /\ searchRegion = Region(0, 6)
          /\ settings = [pattern |-> BinExamplePattern]
    /\ provider = "P"
    /\ mode = "BinaryPattern"
    /\ pc = "start"
    /\ it = 0 /\ results = <<>> /\ progress = 0
    /\ matchedBytes = 0 /\ countedCharacters = 0 /\ startAddress = 0
    /\ bytes = <<>> /\ validBytes = 0 /\ address = 0
    /\ shouldInterrupt = FALSE
    /\ stringOccurrences = <<>> /\ occurrenceIndex = 0
    /\ ParseIdle
    /\ SessionIdle

NextBinaryPattern == searchBinaryPatternBegin \/ searchBinaryPattern

SpecBinaryPattern == InitBinaryPattern /\ [][NextBinaryPattern]_vars

\* the addresses at which the whole pattern lies in the region and every position satisfies (byte & mask) == value
BinaryPatternHits(pat) ==
    {a \in searchRegion.address..(ReaderEnd - 1) :
        /\ a + Len(pat) <= ReaderEnd
        /\ \A j \in 1..Len(pat) : BitAnd(data[provider][a + j], pat[j].mask) = pat[j].value}

\* C2: searchBinaryPattern returns exactly the addresses at which the whole masked pattern
\* matches inside the range, each once and with the pattern's length, overlapping matches included.
C2_BinaryPatternExact ==
    (mode = "BinaryPattern" /\ pc = "done") =>
        /\ {results[i].region.address : i \in 1..Len(results)} = BinaryPatternHits(settings.pattern)
        /\ Len(results) = Cardinality(BinaryPatternHits(settings.pattern))
        /\ \A i \in 1..Len(results) : results[i].region.size = Len(settings.pattern)

\* DE AD ?? EF over DE AD DE AD BE EF gave the single occurrence at offset 2 of 4 bytes,
\* after a partial match at offset 0 had been rewound
C2_Witness ==
    /\ mode = "BinaryPattern" /\ pc = "done"
    /\ data[provider] = BinExampleData /\ settings.pattern = BinExamplePattern
    /\ results = <<Occurrence(2, 4, "Binary", "native")>>

-----------------------------------------------------------------------------
(* 64-bit integers: a u64 / i64 is its 8 bytes, most significant first *)

WordBytes == 8

ZeroWord == <<0, 0, 0, 0, 0, 0, 0, 0>>

\* the word of a small natural number (below 2^24)
SmallWord(n) ==
    [i \in 1..WordBytes |-> IF i = 8 THEN n % 256
                            ELSE IF i = 7 THEN (n \div 256) % 256
                            ELSE IF i = 6 THEN (n \div 65536) % 256 ELSE 0]

\* unsigned x < y
RECURSIVE LessFrom(_, _, _)
LessFrom(x, y, i) ==
    IF i > WordBytes THEN FALSE
    ELSE IF x[i] # y[i] THEN x[i] < y[i]
    ELSE LessFrom(x, y, i + 1)

LessU(x, y) == LessFrom(x, y, 1)

FlipSign(x) == [x EXCEPT ![1] = (x[1] + 128) % 256]

\* signed (two's complement) x < y
LessS(x, y) == LessU(FlipSign(x), FlipSign(y))

\* bytes i..1 of x * base + carry, preceded by the carry out of byte 1
RECURSIVE MulAddFrom(_, _, _, _)
MulAddFrom(x, base, carry, i) ==
    IF i = 0 THEN <<carry>>
    ELSE Append(MulAddFrom(x, base, (x[i] * base + carry) \div 256, i - 1), (x[i] * base + carry) % 256)

\* x * base + d on 64 bits, and whether the exact result needs more
MulAdd(x, base, d) ==
    [word |-> Tail(MulAddFrom(x, base, d, WordBytes)),
     overflow |-> Head(MulAddFrom(x, base, d, WordBytes)) > 0]

\* 0 - x on 64 bits
Negate(x) == MulAdd([i \in 1..WordBytes |-> 255 - x[i]], 1, 1).word

\* std::numeric_limits of the integer types, as 64-bit values of the storage type
MaxUnsigned(size) == [i \in 1..WordBytes |-> IF i > WordBytes - size THEN 255 ELSE 0]

MaxSigned(size) ==
    [i \in 1..WordBytes |-> IF i > WordBytes - size + 1 THEN 255
                            ELSE IF i = WordBytes - size + 1 THEN 127 ELSE 0]

LowestSigned(size) ==
    [i \in 1..WordBytes |-> IF i > WordBytes - size + 1 THEN 0
                            ELSE IF i = WordBytes - size + 1 THEN 128 ELSE 255]

-----------------------------------------------------------------------------
(* parseNumericValue / parseNumericValueInput (integer types) *)

IntegerTypes == {"U8", "U16", "U32", "U64", "I8", "I16", "I32", "I64"}

IsSignedType(type) == type \in {"I8", "I16", "I32", "I64"}

\* sizeof(Type)
SizeOf(type) ==
    CASE type \in {"U8", "I8"} -> 1
      [] type \in {"U16", "I16"} -> 2
      [] type \in {"U32", "I32"} -> 4
      [] type \in {"U64", "I64"} -> 8

IsSpace(c) == c = 32 \/ c \in 9..13

\* value of a character as a digit, 99 when it is none
DigitValue(c) ==
    IF c \in 48..57 THEN c - 48
    ELSE IF c \in 97..122 THEN c - 87
    ELSE IF c \in 65..90 THEN c - 55
    ELSE 99

RECURSIVE SkipSpaces(_, _)
SkipSpaces(s, i) == IF i <= Len(s) /\ IsSpace(s[i]) THEN SkipSpaces(s, i + 1) ELSE i

\* the digits of the base from position i on: magnitude so far, overflow of 64 bits, next position
RECURSIVE ScanDigits(_, _, _, _, _)
RECURSIVE ScanDigit(_, _, _, _, _)
ScanDigits(s, i, base, magnitude, overflow) ==
    IF i <= Len(s) /\ DigitValue(s[i]) < base
    THEN ScanDigit(s, i, base, MulAddFrom(magnitude, base, DigitValue(s[i]), WordBytes), overflow)
    ELSE [magnitude |-> magnitude, overflow |-> overflow, next |-> i]

\* r is the carry out followed by the 8 bytes of magnitude * base + digit
ScanDigit(s, i, base, r, overflow) ==
    IF Head(r) > 0 \/ overflow
    THEN ScanDigits(s, i + 1, base, Tail(r), TRUE)
    ELSE ScanDigits(s, i + 1, base, Tail(r), FALSE)

NumeralResult(first, negative, st) ==
    [converted |-> st.next > first, negative |-> negative, magnitude |-> st.magnitude,
     overflow |-> st.overflow, processed |-> st.next - 1]

NumeralDigits(s, first, base, negative) ==
    NumeralResult(first, negative, ScanDigits(s, first, base, ZeroWord, FALSE))

\* a 0x or 0 prefix selects base 16 or 8
NumeralBase(s, q, negative) ==
    IF q + 2 <= Len(s) /\ s[q] = 48 /\ s[q + 1] \in {120, 88} /\ DigitValue(s[q + 2]) < 16
    THEN NumeralDigits(s, q + 2, 16, negative)
    ELSE IF q <= Len(s) /\ s[q] = 48 THEN NumeralDigits(s, q, 8, negative)
    ELSE NumeralDigits(s, q, 10, negative)

\* an optional sign
NumeralSign(s, p) ==
    IF p <= Len(s) /\ s[p] \in {43, 45} THEN NumeralBase(s, p + 1, s[p] = 45)
    ELSE NumeralBase(s, p, FALSE)

\* the numeral at the front of s as strtoll / strtoull with base 0 read it: leading white
\* space, an optional sign, a 0x or 0 prefix, then digits
Numeral(s) == NumeralSign(s, SkipSpaces(s, 1))

Thrown == [thrown |-> TRUE, value |-> ZeroWord, processed |-> 0]

Converted(n) ==
    [thrown |-> FALSE,
     value |-> IF n.negative THEN Negate(n.magnitude) ELSE n.magnitude,
     processed |-> n.processed]

StoullOf(n) == IF ~n.converted \/ n.overflow THEN Thrown ELSE Converted(n)

\* std::stoull(string, &processed, 0): a negative numeral is negated in the unsigned type
Stoull(s) == StoullOf(Numeral(s))

\* the magnitude may reach 2^63 - 1, or 2^63 behind a minus sign
StollOf(n) ==
    IF ~n.converted \/ n.overflow
       \/ LessU(IF n.negative THEN LowestSigned(8) ELSE MaxSigned(8), n.magnitude)
    THEN Thrown
    ELSE Converted(n)

\* std::stoll(string, &processed, 0)
Stoll(s) == StollOf(Numeral(s))

Failed == [valid |-> FALSE, value |-> ZeroWord, size |-> 0]

\* value < std::numeric_limits<Type>::lowest() || value > std::numeric_limits<Type>::max()
OutOfRange(type, value) ==
    IF IsSignedType(type)
    THEN LessS(value, LowestSigned(SizeOf(type))) \/ LessS(MaxSigned(SizeOf(type)), value)
    ELSE LessU(MaxUnsigned(SizeOf(type)), value)

\* the checks of parseNumericValue on what stoll / stoull returned
CheckParsed(type, string, r) ==
    IF r.thrown THEN Failed
    ELSE IF r.processed # Len(string) THEN Failed
    ELSE IF OutOfRange(type, r.value) THEN Failed
    ELSE [valid |-> TRUE, value |-> r.value, size |-> SizeOf(type)]

\* parseNumericValue<Type, StorageType>(string)
parseNumericValue(type, string) ==
    CheckParsed(type, string, IF IsSignedType(type) THEN Stoll(string) ELSE Stoull(string))

\* ViewFind::parseNumericValueInput(input, type) for the integer types
parseNumericValueInput(string, type) ==
    IF type \in IntegerTypes THEN parseNumericValue(type, string) ELSE Failed

-----------------------------------------------------------------------------
(* The min field of the value tab: every edit re-parses the field *)

MaxInput == 3       \* longest text typed into the field

\* - 0 1 5 x and a blank
InputAlphabet == {45, 48, 49, 53, 120, 32}

\* texts pasted into the field: the extremes of the 64-bit types and the 32-bit ones
PastedInputs ==
    { <<>>,
      <<49,56,52,52,54,55,52,52,48,55,51,55,48,57,53,53,49,54,49,53>>,       \* 18446744073709551615
      <<49,56,52,52,54,55,52,52,48,55,51,55,48,57,53,53,49,54,49,54>>,       \* 18446744073709551616
      <<45,49,56,52,52,54,55,52,52,48,55,51,55,48,57,53,53,49,54,49,53>>,    \* -18446744073709551615
      <<57,50,50,51,51,55,50,48,51,54,56,53,52,55,55,53,56,48,55>>,          \* 9223372036854775807
      <<57,50,50,51,51,55,50,48,51,54,56,53,52,55,55,53,56,48,56>>,          \* 9223372036854775808
      <<45,57,50,50,51,51,55,50,48,51,54,56,53,52,55,55,53,56,48,56>>,       \* -9223372036854775808
      <<45,57,50,50,51,51,55,50,48,51,54,56,53,52,55,55,53,56,48,57>>,       \* -9223372036854775809
      <<52,50,57,52,57,54,55,50,57,53>>,                                     \* 4294967295
      <<52,50,57,52,57,54,55,50,57,54>>,                                     \* 4294967296
      <<45,50,49,52,55,52,56,51,54,52,56>>,                                  \* -2147483648
      <<45,50,49,52,55,52,56,51,54,52,57>>,                                  \* -2147483649
      <<50,53,53>>,                                                          \* 255
      <<50,53,54>>,                                                          \* 256
      <<48,120,70,70>>,                                                      \* 0xFF
      <<48,120,49,48,48>>,                                                   \* 0x100
      <<45,49,50,56>>,                                                       \* -128
      <<45,49,50,57>> }                                                      \* -129

\* ImGui::InputTextIcon(min) returned true: a character was typed
InputEdited(c) ==
    /\ Len(input) < MaxInput
    /\ input' = Append(input, c)
    /\ parsed' = parseNumericValueInput(input', inputType)
    /\ UNCHANGED <<inputType, tabVars, query, eventVars, engineVars, sessionVars>>

\* ImGui::InputTextIcon(min) returned true: a text was pasted into the empty field
InputPasted(text) ==
    /\ input = <<>>
    /\ input' = text
    /\ parsed' = parseNumericValueInput(input', inputType)
    /\ UNCHANGED <<inputType, tabVars, query, eventVars, engineVars, sessionVars>>

\* ImGui::Selectable(InputTypes[i]) selected another type
TypeSelected(type) ==
    /\ type # inputType
    /\ inputType' = type
    /\ parsed' = parseNumericValueInput(input, type)
    /\ UNCHANGED <<input, tabVars, query, eventVars, engineVars, sessionVars>>

InitNumeric ==
    /\ EngineIdle
    /\ SessionIdle
    /\ input = <<>>
    /\ inputType = "U8"
    /\ parsed = parseNumericValueInput(input, inputType)
    /\ TabsIdle
    /\ query = NoQuery
    /\ EventsIdle

NextNumeric ==
    \/ \E c \in InputAlphabet : InputEdited(c)
    \/ \E text \in PastedInputs : InputPasted(text)
    \/ \E type \in IntegerTypes : TypeSelected(type)

SpecNumeric == InitNumeric /\ [][NextNumeric]_vars

\* 2^(8 size - 1), the magnitude of the lowest value of the signed type
SignedLowestMagnitude(size) == [i \in 1..WordBytes |-> IF i = WordBytes - size + 1 THEN 128 ELSE 0]

\* the integer the numeral denotes (its sign and magnitude) lies in the range of the type
DenotedFits(type, n) ==
    /\ ~n.overflow
    /\ IF IsSignedType(type)
       THEN IF n.negative THEN ~LessU(SignedLowestMagnitude(SizeOf(type)), n.magnitude)
                          ELSE ~LessU(MaxSigned(SizeOf(type)), n.magnitude)
       ELSE /\ n.negative => n.magnitude = ZeroWord
            /\ ~LessU(MaxUnsigned(SizeOf(type)), n.magnitude)

\* C8: parseNumericValueInput succeeds only when the whole input is a numeral whose number
\* lies in the range of the target type, and then returns the type's byte width; an input
\* denoting a number outside the range (negative input for unsigned types included) fails.
C8_ParseFitsType ==
    parsed.valid =>
        /\ Numeral(input).converted
        /\ Numeral(input).processed = Len(input)
        /\ DenotedFits(inputType, Numeral(input))
        /\ parsed.size = SizeOf(inputType)

-----------------------------------------------------------------------------
(* searchValue *)

\* bytes <<= 8; bytes |= byte;
ShiftIn(word, byte) == Append(Tail(word), byte)

\* bytes &= hex::bitmask(size * 8);
MaskTo(word, size) == [i \in 1..WordBytes |-> IF i > WordBytes - size THEN word[i] ELSE 0]

\* hex::changeEndianess(value, size, endian) on a little-endian host: the low size bytes are
\* reversed unless the requested order is the native one
changeEndianess(value, size, endian) ==
    IF endian = "little" THEN value
    ELSE [i \in 1..WordBytes |-> IF i > WordBytes - size
                                 THEN value[(WordBytes - size + 1) + (WordBytes - i)]
                                 ELSE value[i]]

\* T value = 0; std::memcpy(&value, &bytes, size); then the two changeEndianess calls
WindowValue(word, size, endian) ==
    changeEndianess(changeEndianess(MaskTo(word, size), size, "big"), size, endian)

\* value >= minValue && value <= maxValue in the type held by the variant: u64 or i64
InRange(type, value, min, max) ==
    IF IsSignedType(type)
    THEN ~LessS(value, min) /\ ~LessS(max, value)
    ELSE ~LessU(value, min) /\ ~LessU(max, value)

ValueDecodeType(type) == IF IsSignedType(type) THEN "Signed" ELSE "Unsigned"

\* a searchValue that goes on to scan whatever became of the min input
searchValueParsedMaxOnly(min, max) ==
    /\ pc' = IF ~max.valid THEN "done" ELSE "scan"
    /\ it' = searchRegion.address
    /\ results' = <<>>
    /\ bytes' = ZeroWord
    /\ address' = searchRegion.address
    /\ validBytes' = 0

\* the inputs are parsed; if (!validMin || !validMax || sizeMin != sizeMax) return { }
searchValueParsed(min, max) ==
    /\ pc' = IF ~min.valid \/ ~max.valid \/ min.size # max.size THEN "done" ELSE "scan"
    /\ it' = searchRegion.address
    /\ results' = <<>>
    /\ bytes' = ZeroWord
    /\ address' = searchRegion.address
    /\ validBytes' = 0

searchValueBegin ==
    /\ mode = "Value" /\ pc = "start"
    /\ searchValueParsed(parseNumericValueInput(settings.inputMin, settings.type),
                         parseNumericValueInput(settings.inputMax, settings.type))
    /\ UNCHANGED <<data, stringOccurrences, occurrenceIndex,
                   provider, searchRegion, mode, settings, progress, matchedBytes,
                   countedCharacters, startAddress, shouldInterrupt, parseVars, sessionVars>>

\* the body of the for loop over the reader
searchValueLoop(min, max, size, shifted) ==
    IF validBytes = size
    THEN IF shouldInterrupt
         THEN /\ pc' = "interrupted"
              /\ UNCHANGED <<it, results, progress, bytes, validBytes, address>>
         ELSE /\ pc' = "scan"
              /\ bytes' = MaskTo(shifted, size)
              /\ progress' = address
              /\ results' =
                     IF InRange(settings.type, WindowValue(shifted, size, settings.endian), min, max)
                     THEN Append(results, Occurrence(address - (size - 1), size,
                                                     ValueDecodeType(settings.type), settings.endian))
                     ELSE results
              /\ address' = address + 1
              /\ it' = it + 1
              /\ UNCHANGED validBytes
    ELSE /\ pc' = "scan"
         /\ bytes' = shifted
         /\ validBytes' = validBytes + 1
         /\ address' = address + 1
         /\ it' = it + 1
         /\ UNCHANGED <<results, progress>>

\* one iteration of the for loop over the reader; the loop exit returns the results
searchValue ==
    /\ mode = "Value" /\ pc = "scan"
    /\ IF it = ReaderEnd
       THEN /\ pc' = "done"
            /\ UNCHANGED <<it, results, progress, bytes, validBytes, address>>
       ELSE searchValueLoop(parseNumericValueInput(settings.inputMin, settings.type).value,
                            parseNumericValueInput(settings.inputMax, settings.type).value,
                            SizeOf(settings.type), ShiftIn(bytes, ReadByte(it)))
    /\ UNCHANGED <<data, stringOccurrences, occurrenceIndex,
                   provider, searchRegion, mode, settings, matchedBytes,
                   countedCharacters, startAddress, shouldInterrupt, parseVars, sessionVars>>

ValueAlphabet == {0, 10, 255}

ValueTypes == {"U8", "U16", "I8", "I16", "I32"}

\* the min and max fields: 5..20, -1..-1, -128..10, 0..300, x..5
ValueInputs ==
    { <<<<53>>, <<50,48>>>>,
      <<<<45,49>>, <<45,49>>>>,
      <<<<45,49,50,56>>, <<49,48>>>>,
      <<<<48>>, <<51,48,48>>>>,
      <<<<120>>, <<53>>>> }

InitValue ==
    /\ \/ /\ \E d \in SeqsUpTo(ValueAlphabet, MaxData) : data = [OtherData EXCEPT !["P"] = d]
          /\ searchRegion \in RegionsOf(Len(data["P"]))
          /\ \E in \in ValueInputs, type \in ValueTypes, endian \in {"little", "big"} :
                settings = [inputMin |-> in[1], inputMax |-> in[2], type |-> type, endian |-> endian]
       \/ /\ data = [OtherData EXCEPT !["P"] = <<0, 10, 20>>]
          /\ searchRegion = Region(0, 3)
          /\ settings = [inputMin |-> <<53>>, inputMax |-> <<50,48>>, type |-> "U8", endian |-> "little"]
    /\ provider = "P"
    /\ mode = "Value"
    /\ pc = "start"
    /\ it = 0 /\ results = <<>> /\ progress = 0
    /\ matchedBytes = 0 /\ countedCharacters = 0 /\ startAddress = 0
    /\ bytes = <<>> /\ validBytes = 0 /\ address = 0
    /\ shouldInterrupt = FALSE
    /\ stringOccurrences = <<>> /\ occurrenceIndex = 0
    /\ ParseIdle
    /\ SessionIdle

NextValue == searchValueBegin \/ searchValue

SpecValue == InitValue /\ [][NextValue]_vars

\* the size bytes at address a read as a number of the given endianness, zero-extended
\* (unsigned) or sign-extended (signed) to 64 bits
WindowAt(a, size, endian, signed) ==
    LET byteOf(i) == IF endian = "little" THEN data[provider][a + (WordBytes - i) + 1]
                     ELSE data[provider][a + (i - (WordBytes - size + 1)) + 1]
        msb == IF endian = "little" THEN data[provider][a + size] ELSE data[provider][a + 1]
    IN  [i \in 1..WordBytes |-> IF i > WordBytes - size THEN byteOf(i)
                                ELSE IF signed /\ msb >= 128 THEN 255 ELSE 0]

ValueSettingsValid ==
    /\ parseNumericValueInput(settings.inputMin, settings.type).valid
    /\ parseNumericValueInput(settings.inputMax, settings.type).valid

\* the offsets from first on at which a full window fits and its value lies in [min, max]
ValueHits(first, signed) ==
    LET size == SizeOf(settings.type) IN
    {a \in first..(ReaderEnd - size) :
        InRange(settings.type, WindowAt(a, size, settings.endian, signed),
                parseNumericValueInput(settings.inputMin, settings.type).value,
                parseNumericValueInput(settings.inputMax, settings.type).value)}

ResultAddresses == {results[i].region.address : i \in 1..Len(results)}

\* C3: for an unsigned type, searchValue reports an occurrence of the type's width at offset a
\* if and only if a full window fits at a, from the range start on, and its value read at the
\* chosen endianness lies in [min, max].
C3_EveryWindowCompared ==
    (mode = "Value" /\ pc = "done" /\ ~IsSignedType(settings.type) /\ ValueSettingsValid) =>
        /\ ResultAddresses = ValueHits(searchRegion.address, FALSE)
        /\ \A i \in 1..Len(results) : results[i].region.size = SizeOf(settings.type)

\* C4: for a signed type, every window searchValue compares (the windows after the first one
\* of the range) is reported if and only if its two's-complement value of the type's width
\* lies in [min, max].
C4_SignedWindows ==
    (mode = "Value" /\ pc = "done" /\ IsSignedType(settings.type) /\ ValueSettingsValid) =>
        ResultAddresses \ {searchRegion.address} = ValueHits(searchRegion.address + 1, TRUE)

-----------------------------------------------------------------------------
(* searchStrings *)

MaxMinLength == 2   \* largest minLength setting

\* <cctype> in the "C" locale
IsLower(c) == c \in 97..122
IsUpper(c) == c \in 65..90
IsDigit(c) == c \in 48..57
IsPunct(c) == c \in 33..47 \/ c \in 58..64 \/ c \in 91..96 \/ c \in 123..126

\* the byte belongs to an enabled character class of the settings
ValidChar(st, byte) ==
    \/ st.lowerCaseLetters /\ IsLower(byte)
    \/ st.upperCaseLetters /\ IsUpper(byte)
    \/ st.numbers /\ IsDigit(byte)
    \/ st.spaces /\ IsSpace(byte) /\ byte # 13 /\ byte # 10
    \/ st.underscores /\ byte = 95
    \/ st.symbols /\ IsPunct(byte) /\ ~IsSpace(byte)
    \/ st.lineFeeds /\ (byte = 13 \/ byte = 10)

\* validChar after the UTF-16 adjustment: every second byte of a run has to be 0x00
ValidByte(st, type, counted, byte) ==
    IF type = "UTF16LE" /\ counted % 2 = 1 THEN byte = 0
    ELSE IF type = "UTF16BE" /\ counted % 2 = 0 THEN byte = 0
    ELSE ValidChar(st, byte)

IsCombined(type) == type \in {"ASCII_UTF16LE", "ASCII_UTF16BE"}

\* strings settings of a regex search that leave the upper-case letters out
RegexStringsNoUpperCase(st) ==
    [minLength |-> st.minLength, nullTermination |-> st.nullTermination, type |-> st.type,
     lowerCaseLetters |-> TRUE, upperCaseLetters |-> FALSE, numbers |-> TRUE,
     underscores |-> TRUE, symbols |-> TRUE, spaces |-> TRUE, lineFeeds |-> TRUE]

\* the SearchSettings::Strings searchRegex calls searchStrings with
RegexStrings(st) ==
    [minLength |-> st.minLength, nullTermination |-> st.nullTermination, type |-> st.type,
     lowerCaseLetters |-> TRUE, upperCaseLetters |-> TRUE, numbers |-> TRUE,
     underscores |-> TRUE, symbols |-> TRUE, spaces |-> TRUE, lineFeeds |-> TRUE]

\* the settings parameter of searchStrings: the settings of a strings search, or what
\* searchRegex passes
StringsArguments == IF mode = "Regex" THEN RegexStrings(settings) ELSE settings

\* the type of the pass under way: the combined types run an ASCII pass, then a UTF-16 pass
PassType ==
    IF IsCombined(StringsArguments.type)
    THEN IF pc = "scan" THEN "ASCII"
         ELSE IF StringsArguments.type = "ASCII_UTF16BE" THEN "UTF16BE" ELSE "UTF16LE"
    ELSE StringsArguments.type

StringDecodeType(type) == IF type = "ASCII" THEN "ASCII" ELSE "UTF16"

StringEndian(type) ==
    IF type = "UTF16BE" THEN "big" ELSE IF type = "UTF16LE" THEN "little" ELSE "native"

RunLongEnoughStrict(counted, minLength) == counted > minLength

\* countedCharacters >= size_t(settings.minLength)
RunLongEnough(counted, minLength) == counted >= minLength

searchStringsBegin ==
    /\ mode \in {"Strings", "Regex"} /\ pc = "start"
    /\ pc' = "scan"
    /\ it' = searchRegion.address
    /\ results' = <<>>
    /\ countedCharacters' = 0
    /\ startAddress' = searchRegion.address
    /\ progress' = 0
    /\ UNCHANGED <<data, stringOccurrences, occurrenceIndex,
                   provider, searchRegion, mode, settings, matchedBytes,
                   bytes, validBytes, address, shouldInterrupt, parseVars, sessionVars>>

\* a start address that stays where it is when a run has ended
AdvanceStartNowhere(start, counted) == start

\* a start address that skips one byte more than the run and the byte that ended it
AdvanceStartFurther(start, counted) == start + counted + 2

\* startAddress += countedCharacters + 1
AdvanceStart(start, counted) == start + counted + 1

\* the body of the for loop over the reader, counted being countedCharacters after this byte
searchStringsLoop(type, byte, validChar, counted) ==
    /\ pc' = pc
    /\ it' = it + 1
    /\ IF ~validChar \/ startAddress + counted = ReaderEnd
       THEN /\ results' =
                   IF /\ RunLongEnough(counted, StringsArguments.minLength)
                      /\ ~(StringsArguments.nullTermination /\ byte # 0)
                   THEN Append(results, Occurrence(startAddress, counted,
                                                   StringDecodeType(type), StringEndian(type)))
                   ELSE results
            /\ startAddress' = AdvanceStart(startAddress, counted)
            /\ countedCharacters' = 0
            /\ progress' = AdvanceStart(startAddress, counted) - searchRegion.address
       ELSE /\ countedCharacters' = counted
            /\ UNCHANGED <<results, startAddress, progress>>

searchStringsByte(type, byte, validChar) ==
    searchStringsLoop(type, byte, validChar,
                      IF validChar THEN countedCharacters + 1 ELSE countedCharacters)

\* one iteration of the for loop over the reader; at the loop exit a combined type goes on
\* with its UTF-16 pass, any other type returns the results: to the task, or to searchRegex
searchStrings ==
    /\ mode \in {"Strings", "Regex"} /\ pc \in {"scan", "scan2"}
    /\ IF it = ReaderEnd
       THEN IF IsCombined(StringsArguments.type) /\ pc = "scan"
            THEN /\ pc' = "scan2"
                 /\ it' = searchRegion.address
                 /\ countedCharacters' = 0
                 /\ startAddress' = searchRegion.address
                 /\ progress' = 0
                 /\ UNCHANGED results
            ELSE /\ pc' = IF mode = "Regex" THEN "returned" ELSE "done"
                 /\ UNCHANGED <<it, results, countedCharacters, startAddress, progress>>
       ELSE IF shouldInterrupt
       THEN /\ pc' = "interrupted"
            /\ UNCHANGED <<it, results, countedCharacters, startAddress, progress>>
       ELSE searchStringsByte(PassType, ReadByte(it),
                              ValidByte(StringsArguments, PassType, countedCharacters,
                                        ReadByte(it)))
    /\ UNCHANGED <<data, stringOccurrences, occurrenceIndex,
                   provider, searchRegion, mode, settings, matchedBytes,
                   bytes, validBytes, address, shouldInterrupt, parseVars, sessionVars>>

StringTypes == {"ASCII", "UTF16LE", "UTF16BE", "ASCII_UTF16LE", "ASCII_UTF16BE"}

CharClasses == {"lower", "upper", "numbers", "underscores", "symbols", "spaces", "lineFeeds"}

\* SearchSettings::Strings with the given character classes enabled
StringsSettings(minLength, nullTermination, type, classes) ==
    [minLength |-> minLength, nullTermination |-> nullTermination, type |-> type,
     lowerCaseLetters |-> "lower" \in classes, upperCaseLetters |-> "upper" \in classes,
     numbers |-> "numbers" \in classes, underscores |-> "underscores" \in classes,
     symbols |-> "symbols" \in classes, spaces |-> "spaces" \in classes,
     lineFeeds |-> "lineFeeds" \in classes]

\* a A and the zero byte
StringAlphabet == {97, 65, 0}

\* "ab\x01cd"
StringExampleData == <<97, 98, 1, 99, 100>>

InitStrings ==
    /\ \/ /\ \E d \in SeqsUpTo(StringAlphabet, MaxData) : data = [OtherData EXCEPT !["P"] = d]
          /\ searchRegion \in RegionsOf(Len(data["P"]))
          /\ \E n \in 1..MaxMinLength, z \in BOOLEAN, type \in StringTypes,
                classes \in {CharClasses, {"lower"}} :
                settings = StringsSettings(n, z, type, classes)
       \/ /\ data = [OtherData EXCEPT !["P"] = StringExampleData]
          /\ searchRegion = Region(0, 5)
          /\ \E n \in {2, 3} : settings = StringsSettings(n, FALSE, "ASCII", CharClasses)
    /\ provider = "P"
    /\ mode = "Strings"
    /\ pc = "start"
    /\ it = 0 /\ results = <<>> /\ progress = 0
    /\ matchedBytes = 0 /\ countedCharacters = 0 /\ startAddress = 0
    /\ bytes = <<>> /\ validBytes = 0 /\ address = 0
    /\ shouldInterrupt = FALSE
    /\ stringOccurrences = <<>> /\ occurrenceIndex = 0
    /\ ParseIdle
    /\ SessionIdle

NextStrings == searchStringsBegin \/ searchStrings

SpecStrings == InitStrings /\ [][NextStrings]_vars

\* the maximal runs of bytes of enabled classes inside the search region
MaximalRuns ==
    {r \in RegionsOf(Len(data[provider])) :
        /\ r.address >= searchRegion.address /\ r.address + r.size <= ReaderEnd
        /\ \A a \in r.address..(r.address + r.size - 1) : ValidChar(settings, data[provider][a + 1])
        /\ r.address = searchRegion.address \/ ~ValidChar(settings, data[provider][r.address])
        /\ r.address + r.size = ReaderEnd \/ ~ValidChar(settings, data[provider][r.address + r.size + 1])}

\* C5: in ASCII mode without null termination searchStrings returns exactly one occurrence
\* per maximal run of bytes of enabled classes whose length is at least minLength, spanning
\* that run, and nothing else.
C5_AsciiRuns ==
    (mode = "Strings" /\ pc = "done" /\ settings.type = "ASCII" /\ ~settings.nullTermination) =>
        /\ {results[i].region : i \in 1..Len(results)} =
               {r \in MaximalRuns : r.size >= settings.minLength}
        /\ Len(results) = Cardinality({r \in MaximalRuns : r.size >= settings.minLength})
        /\ \A i \in 1..Len(results) : results[i].decodeType = "ASCII"

\* "ab\x01cd" with minLength 2 gave "ab" and "cd"
C5_Witness ==
    /\ mode = "Strings" /\ pc = "done" /\ settings.type = "ASCII" /\ ~settings.nullTermination
    /\ data[provider] = StringExampleData /\ settings.minLength = 2
    /\ results = <<Occurrence(0, 2, "ASCII", "native"), Occurrence(3, 2, "ASCII", "native")>>

-----------------------------------------------------------------------------
(* parseBinaryPatternString *)

MaxPatternInput == 4    \* longest text typed into the binary pattern field

IsXDigit(c) == c \in 48..57 \/ c \in 65..70 \/ c \in 97..102

\* hex::hexCharToValue for a hex digit
hexCharToValue(c) == IF c \in 48..57 THEN c - 48 ELSE IF c \in 65..70 THEN c - 55 ELSE c - 87

NibbleNoWildcard(pattern, c) ==
    IF IsXDigit(c)
    THEN BinaryPattern(((pattern.mask * 16) % 256) + 15, ((pattern.value * 16) % 256) + hexCharToValue(c))
    ELSE BinaryPattern(((pattern.mask * 16) % 256) + 15, (pattern.value * 16) % 256)

\* a '?' whose nibble of the value takes the low bits of the character
NibbleWildcardValue(pattern, c) ==
    IF IsXDigit(c)
    THEN BinaryPattern(((pattern.mask * 16) % 256) + 15, ((pattern.value * 16) % 256) + hexCharToValue(c))
    ELSE BinaryPattern((pattern.mask * 16) % 256, ((pattern.value * 16) % 256) + (c % 16))

\* pattern.mask <<= 4; pattern.value <<= 4; and for a hex digit mask |= 0x0F; value |= hexValue
Nibble(pattern, c) ==
    IF IsXDigit(c)
    THEN BinaryPattern(((pattern.mask * 16) % 256) + 15, ((pattern.value * 16) % 256) + hexCharToValue(c))
    ELSE BinaryPattern((pattern.mask * 16) % 256, (pattern.value * 16) % 256)

FinishPartial(inString, result) == result

\* if (inString) return { }; return result;
Finish(inString, result) == IF inString THEN <<>> ELSE result

\* the while loop over the remaining text
RECURSIVE ParseLoop(_, _, _)
ParseLoop(string, inString, result) ==
    IF Len(string) = 0 THEN Finish(inString, result)
    ELSE IF Head(string) = 34 THEN ParseLoop(Tail(string), ~inString, result)
    ELSE IF inString
    THEN ParseLoop(Tail(string), inString, Append(result, BinaryPattern(255, Head(string))))
    ELSE IF Len(string) >= 2 /\ string[1] = 63 /\ string[2] = 63
    THEN ParseLoop(SubSeq(string, 3, Len(string)), inString, Append(result, BinaryPattern(0, 0)))
    ELSE IF (IsXDigit(Head(string)) \/ Head(string) = 63) /\ Len(string) >= 2
    THEN IF \A k \in 1..2 : IsXDigit(string[k]) \/ string[k] = 63
         THEN ParseLoop(SubSeq(string, 3, Len(string)), inString,
                        Append(result, Nibble(Nibble(BinaryPattern(0, 0), string[1]), string[2])))
         ELSE <<>>
    ELSE IF IsSpace(Head(string)) THEN ParseLoop(Tail(string), inString, result)
    ELSE <<>>

parseBinaryPatternString(string) ==
    IF Len(string) < 2 THEN <<>> ELSE ParseLoop(string, FALSE, <<>>)

\* D 1 ? " G and a blank
PatternAlphabet == {68, 49, 63, 34, 71, 32}

\* DE AD BE EF, DE ?? BE EF, "AB", DE D, "AB
PastedPatterns ==
    { <<68,69,32,65,68,32,66,69,32,69,70>>,
      <<68,69,32,63,63,32,66,69,32,69,70>>,
      <<34,65,66,34>>,
      <<68,69,32,68>>,
      <<34,65,66>> }

\* ImGui::InputTextIcon(binary pattern): a character was typed; the tab parses its input every frame
PatternEdited(c) ==
    /\ Len(input) < MaxPatternInput
    /\ input' = Append(input, c)
    /\ parsed' = parseBinaryPatternString(input')
    /\ UNCHANGED <<inputType, tabVars, query, eventVars, engineVars, sessionVars>>

\* a text was pasted into the empty field
PatternPasted(text) ==
    /\ input = <<>>
    /\ input' = text
    /\ parsed' = parseBinaryPatternString(input')
    /\ UNCHANGED <<inputType, tabVars, query, eventVars, engineVars, sessionVars>>

InitPattern ==
    /\ EngineIdle
    /\ SessionIdle
    /\ input = <<>>
    /\ inputType = "U8"
    /\ parsed = parseBinaryPatternString(input)
    /\ TabsIdle
    /\ query = NoQuery
    /\ EventsIdle

NextPattern ==
    \/ \E c \in PatternAlphabet : PatternEdited(c)
    \/ \E text \in PastedPatterns : PatternPasted(text)

SpecPattern == InitPattern /\ [][NextPattern]_vars

\* position i of the text lies between an opening and a closing double quote
Quoted(text, i) == text[i] # 34 /\ Cardinality({j \in 1..(i - 1) : text[j] = 34}) % 2 = 1

\* position i holds a character of a byte token: outside quotes, neither a quote nor white space
TokenChar(text, i) ==
    /\ text[i] # 34 /\ ~IsSpace(text[i])
    /\ Cardinality({j \in 1..(i - 1) : text[j] = 34}) % 2 = 0

\* the number of token characters in a row that end at position i
TokenRun(text, i) ==
    Cardinality({j \in 1..i : \A k \in j..i : TokenChar(text, k)})

\* position i opens a byte token: an odd place of its row of token characters
TokenStart(text, i) == TokenChar(text, i) /\ TokenRun(text, i) % 2 = 1

\* balanced quotes, and outside them only blanks and two-character tokens of hex digits and '?'
WellFormed(text) ==
    /\ Cardinality({j \in 1..Len(text) : text[j] = 34}) % 2 = 0
    /\ \A i \in 1..Len(text) :
          /\ TokenChar(text, i) => IsXDigit(text[i]) \/ text[i] = 63
          /\ TokenStart(text, i) => i < Len(text) /\ TokenChar(text, i + 1)

\* mask and value of one character of a token: a digit fixes its nibble, '?' leaves it free
NibbleMask(c) == IF c = 63 THEN 0 ELSE 15
NibbleValue(c) == IF c = 63 THEN 0 ELSE hexCharToValue(c)

\* the entries position i of a well-formed text stands for
EntriesAt(text, i) ==
    IF Quoted(text, i) THEN <<BinaryPattern(255, text[i])>>
    ELSE IF TokenStart(text, i)
    THEN <<BinaryPattern(16 * NibbleMask(text[i]) + NibbleMask(text[i + 1]),
                         16 * NibbleValue(text[i]) + NibbleValue(text[i + 1]))>>
    ELSE <<>>

RECURSIVE EntriesUpTo(_, _)
EntriesUpTo(text, i) == IF i = 0 THEN <<>> ELSE EntriesUpTo(text, i - 1) \o EntriesAt(text, i)

\* C6: a well-formed input is mapped to one {mask, value} entry per byte token and per quoted
\* character, in input order: mask 0xF for a digit's nibble and 0x0 for a '?' nibble, mask
\* 0xFF and the character code for a quoted character, nothing for white space.
C6_EntriesOfTokens ==
    WellFormed(input) => parsed = EntriesUpTo(input, Len(input))

\* a text with a full byte, a wildcard byte and a mixed token, and one with a quoted string
C6_Witness ==
    \/ input = <<68,69,32,63,63,32,66,69,32,69,70>> /\ Len(parsed) = 4 /\ parsed[2] = BinaryPattern(0, 0)
    \/ input = <<63, 68, 49, 63>> /\ parsed = <<BinaryPattern(15, 13), BinaryPattern(240, 16)>>

\* C7: a malformed input (shorter than 2 characters, an unbalanced quote, a token holding a
\* character that is neither a hex digit nor '?', a dangling single digit or '?') gives the
\* empty sequence, never a prefix of entries.
C7_MalformedIsEmpty ==
    (Len(input) < 2 \/ ~WellFormed(input)) => parsed = <<>>

\* a text whose first token is valid and whose end is a dangling digit, or an open quote
C7_Witness ==
    /\ parsed = <<>>
    /\ \/ input = <<68, 49, 32, 68>>
       \/ input = <<68, 49, 34, 71>>

-----------------------------------------------------------------------------
(* The view's session: runSearch and its task, the filter input and its tasks *)

MaxFilterTasks == 2     \* filter tasks that have not ended yet
MaxFilterEdits == 3     \* filter edits between two writes of the stored results

\* "c\0abc\0ab" and "ab" followed by zero bytes
SessionData ==
    [p \in Providers |-> IF p = "P" THEN <<99, 0, 97, 98, 99, 0, 97, 98>>
                                    ELSE <<97, 98, 0, 0, 0, 0, 0, 0>>]

\* the settings a search is started with: the strings of lower case letters, the sequence
\* "ab", the pattern 61 ??, the unsigned bytes from 98 to 99
SessionSearches ==
    { [mode |-> "Strings", settings |-> StringsSettings(1, FALSE, "ASCII", {"lower"})],
      [mode |-> "Sequence", settings |-> [sequence |-> <<97, 98>>]],
      [mode |-> "BinaryPattern",
       settings |-> [pattern |-> <<BinaryPattern(255, 97), BinaryPattern(0, 0)>>]],
      [mode |-> "Value",
       settings |-> [inputMin |-> <<57, 56>>, inputMax |-> <<57, 57>>, type |-> "U8",
                     endian |-> "little"]] }

\* "", "ab", "abc"
FilterTexts == {<<>>, <<97, 98>>, <<97, 98, 99>>}

\* m_searchTask.isRunning()
SearchRunning ==
    pc \in {"created", "start", "scan", "scan2", "returned", "regex", "done", "storeSorted",
            "storeTree"}

Stores ==
    [found |-> m_foundOccurrences, sorted |-> m_sortedOccurrences, tree |-> m_occurrenceTree]

\* the elements of a vector
Elements(vector) == SubSeq(vector.slots, 1, vector.size)

\* std::vector copy assignment: the storage is reused when it is large enough
VectorAssign(vector, content) ==
    IF Len(content) <= Len(vector.slots)
    THEN Vector(content \o SubSeq(vector.slots, Len(content) + 1, Len(vector.slots)), Len(content))
    ELSE Vector(content, Len(content))

\* std::vector::erase(first, last) with first < last <= end(): the tail moves down
VectorErase(vector, first, last) ==
    Vector([j \in 1..Len(vector.slots) |->
                IF j > first /\ j <= first + (vector.size - last)
                THEN vector.slots[j + (last - first)] ELSE vector.slots[j]],
           vector.size - (last - first))

\* Region::getEndAddress
getEndAddress(region) == region.address + region.size - 1

IntervalsPastEnd(occurrences) ==
    [k \in 1..Len(occurrences) |->
        [start |-> occurrences[k].region.address,
         stop |-> occurrences[k].region.address + occurrences[k].region.size,
         value |-> occurrences[k]]]

\* the interval_vector runSearch builds from the found occurrences
Intervals(occurrences) ==
    [k \in 1..Len(occurrences) |->
        [start |-> occurrences[k].region.address, stop |-> getEndAddress(occurrences[k].region),
         value |-> occurrences[k]]]

HexDigit(n) == IF n < 10 THEN 48 + n ELSE 55 + n

\* hex::encodeByteString: printable characters as they are, a backslash doubled, \xHH otherwise
RECURSIVE encodeByteString(_)
encodeByteString(bs) ==
    IF bs = <<>> THEN <<>>
    ELSE (IF Head(bs) = 92 THEN <<92, 92>>
          ELSE IF Head(bs) \in 32..126 THEN <<Head(bs)>>
          ELSE <<92, 120, HexDigit(Head(bs) \div 16), HexDigit(Head(bs) % 16)>>)
         \o encodeByteString(Tail(bs))

Reverse(s) == [k \in 1..Len(s) |-> s[Len(s) + 1 - k]]

\* the bytes decodeValue reads, reversed for an occurrence that is not of native endianness
OccurrenceBytes(p, occurrence) ==
    IF occurrence.endian \in {"native", "little"}
    THEN SubSeq(data[p], occurrence.region.address + 1,
                occurrence.region.address + Min({occurrence.region.size, 128}))
    ELSE Reverse(SubSeq(data[p], occurrence.region.address + 1,
                        occurrence.region.address + Min({occurrence.region.size, 128})))

\* every second byte of a UTF-16 occurrence
EvenBytes(bs) == [k \in 1..((Len(bs) + 1) \div 2) |-> bs[2 * k - 1]]

\* std::memcpy(&value, bytes.data(), bytes.size()) into a zeroed integer of a little-endian
\* host, for the widths whose values TLC can hold (up to three bytes)
RECURSIVE MemcpyValue(_)
MemcpyValue(bs) == IF bs = <<>> THEN 0 ELSE Head(bs) + 256 * MemcpyValue(Tail(bs))

\* hex::signExtend(numBits, value): the value of the low numBits bits read as two's complement
signExtend(numBits, value) ==
    IF value >= 2 ^ (numBits - 1) THEN value - 2 ^ numBits ELSE value

\* the decimal digits of a natural number
RECURSIVE Digits(_)
Digits(n) == IF n < 10 THEN <<48 + n>> ELSE Append(Digits(n \div 10), 48 + (n % 10))

\* hex::format("{}", value) for an integer
FormatInteger(n) == IF n < 0 THEN <<45>> \o Digits(0 - n) ELSE Digits(n)

\* formatBytes<u64> and formatBytes<i64>
formatBytes(signed, bs) ==
    IF Len(bs) > WordBytes THEN <<>>
    ELSE FormatInteger(IF signed THEN signExtend(Len(bs) * 8, MemcpyValue(bs))
                       ELSE MemcpyValue(bs))

\* decodeValue for the occurrences of the text, byte and integer searches
decodeValue(p, occurrence) ==
    CASE m_decodeSettings \in {"Sequence", "Regex", "BinaryPattern"} ->
            encodeByteString(OccurrenceBytes(p, occurrence))
      [] m_decodeSettings \in {"Value", "Strings"} /\ occurrence.decodeType \in {"Binary", "ASCII"} ->
            encodeByteString(OccurrenceBytes(p, occurrence))
      [] m_decodeSettings \in {"Value", "Strings"} /\ occurrence.decodeType = "UTF16" ->
            encodeByteString(EvenBytes(OccurrenceBytes(p, occurrence)))
      [] m_decodeSettings \in {"Value", "Strings"} /\ occurrence.decodeType = "Unsigned" ->
            formatBytes(FALSE, OccurrenceBytes(p, occurrence))
      [] m_decodeSettings \in {"Value", "Strings"} /\ occurrence.decodeType = "Signed" ->
            formatBytes(TRUE, OccurrenceBytes(p, occurrence))

ToLower(text) == [k \in 1..Len(text) |-> IF IsUpper(text[k]) THEN text[k] + 32 ELSE text[k]]

\* hex::containsIgnoreCase
containsIgnoreCase(a, b) ==
    \E k \in 0..(Len(a) - Len(b)) : SubSeq(ToLower(a), k + 1, k + Len(b)) = ToLower(b)

\* the predicate handed to remove_if, after its task.update()
FilteredOut(p, occurrence) == ~containsIgnoreCase(decodeValue(p, occurrence), m_currFilter[p])

SearchReturnedOrThrew == pc \in {"done", "interrupted"}

\* the engine returned: the statements after the switch of the task body are reached
SearchReturned == pc = "done"

\* no engine is running: its local variables do not exist
DropLocals ==
    /\ it' = 0 /\ results' = <<>> /\ progress' = 0
    /\ matchedBytes' = 0 /\ countedCharacters' = 0 /\ startAddress' = 0
    /\ bytes' = <<>> /\ validBytes' = 0 /\ address' = 0
    /\ stringOccurrences' = <<>> /\ occurrenceIndex' = 0

\* ImHexApi::HexEditor::isSelectionValid()
isSelectionValid == selection # NoSelection

\* provider->getBaseAddress(): the providers of the model start at address 0
getBaseAddress(p) == 0

\* provider->getActualSize()
getActualSize(p) == Len(data[p])

\* the search region of a runSearch that never looks at the selection
SearchRegionEntire ==
    Region(getBaseAddress(currentProvider), getActualSize(currentProvider))

\* Region searchRegion = [this]{ ... }() of runSearch
SearchRegion ==
    IF m_searchSettings.range = "EntireData" \/ ~isSelectionValid
    THEN Region(getBaseAddress(currentProvider), getActualSize(currentProvider))
    ELSE selection

\* runSearch() from a Search button that is not disabled while the search task runs
runSearchWhileRunning(search) ==
    /\ TRUE
    /\ searchRegion' = SearchRegion
    /\ mode' = search.mode
    /\ settings' = search.settings
    /\ pc' = "created"
    /\ shouldInterrupt' = FALSE
    /\ m_decodeSettings' = search.mode
    /\ beforeSearch' = Stores
    /\ submittedProvider' = currentProvider
    /\ maxValue' = SearchRegion.size
    /\ untouched' = TRUE
    /\ DropLocals
    /\ UNCHANGED <<data, provider, parseVars, currentProvider,
                   m_foundOccurrences, m_sortedOccurrences, m_occurrenceTree, m_currFilter,
                   filterTasks, filterLog>>

\* the Search button: runSearch() and m_decodeSettings = m_searchSettings
runSearch(search) ==
    /\ ~SearchRunning
    /\ searchRegion' = SearchRegion
    /\ mode' = search.mode
    /\ settings' = search.settings
    /\ pc' = "created"
    /\ shouldInterrupt' = FALSE
    /\ m_decodeSettings' = search.mode
    /\ beforeSearch' = Stores
    /\ submittedProvider' = currentProvider
    /\ maxValue' = SearchRegion.size
    /\ untouched' = TRUE
    /\ DropLocals
    /\ UNCHANGED <<data, provider, parseVars, currentProvider,
                   m_foundOccurrences, m_sortedOccurrences, m_occurrenceTree, m_currFilter,
                   filterTasks, filterLog>>

\* a task body that resolves the search range itself when it starts
searchTaskProviderAndRegion ==
    /\ pc = "created"
    /\ provider' = currentProvider
    /\ searchRegion' = SearchRegion
    /\ pc' = "start"
    /\ UNCHANGED <<data, stringOccurrences, occurrenceIndex,
                   mode, settings, it, results, progress, matchedBytes,
                   countedCharacters, startAddress, bytes, validBytes, address, shouldInterrupt,
                   parseVars, sessionVars>>

\* the task body starts: auto provider = ImHexApi::Provider::get()
searchTaskProvider ==
    /\ pc = "created"
    /\ provider' = currentProvider
    /\ pc' = "start"
    /\ UNCHANGED <<data, stringOccurrences, occurrenceIndex,
                   searchRegion, mode, settings, it, results, progress, matchedBytes,
                   countedCharacters, startAddress, bytes, validBytes, address, shouldInterrupt,
                   parseVars, sessionVars>>

\* m_foundOccurrences[provider] = search...(task, provider, searchRegion, settings)
storeFound ==
    /\ SearchReturned
    /\ m_foundOccurrences' = [m_foundOccurrences EXCEPT ![provider] = results]
    /\ pc' = "storeSorted"
    /\ filterLog' = <<>>
    /\ UNCHANGED <<data, stringOccurrences, occurrenceIndex,
                   provider, searchRegion, mode, settings, it, results, progress,
                   matchedBytes, countedCharacters, startAddress, bytes, validBytes, address,
                   shouldInterrupt, parseVars, currentProvider, m_sortedOccurrences,
                   m_occurrenceTree, m_currFilter, m_decodeSettings, filterTasks, beforeSearch,
                   submittedProvider, maxValue,
                   untouched>>

\* m_sortedOccurrences[provider] = m_foundOccurrences[provider]
storeSorted ==
    /\ pc = "storeSorted"
    /\ m_sortedOccurrences' = [m_sortedOccurrences EXCEPT
           ![provider] = VectorAssign(@, m_foundOccurrences[provider])]
    /\ pc' = "storeTree"
    /\ filterLog' = <<>>
    /\ UNCHANGED <<data, stringOccurrences, occurrenceIndex,
                   provider, searchRegion, mode, settings, it, results, progress,
                   matchedBytes, countedCharacters, startAddress, bytes, validBytes, address,
                   shouldInterrupt, parseVars, currentProvider, m_foundOccurrences,
                   m_occurrenceTree, m_currFilter, m_decodeSettings, filterTasks, beforeSearch,
                   submittedProvider, maxValue,
                   untouched>>

\* m_occurrenceTree[provider] = std::move(intervals); the task ends
storeTree ==
    /\ pc = "storeTree"
    /\ m_occurrenceTree' = [m_occurrenceTree EXCEPT
           ![provider] = Intervals(m_foundOccurrences[provider])]
    /\ pc' = "idle"
    /\ beforeSearch' = NoSnapshot
    /\ submittedProvider' = submittedProvider
    /\ maxValue' = maxValue
    /\ untouched' = TRUE
    /\ DropLocals
    /\ UNCHANGED <<data, provider, searchRegion, mode, settings,
                   shouldInterrupt, parseVars, currentProvider, m_foundOccurrences,
                   m_sortedOccurrences, m_currFilter, m_decodeSettings, filterTasks, filterLog>>

\* Task::interrupt of the search task, requested from the task list
interruptSearch ==
    /\ SearchRunning
    /\ ~shouldInterrupt
    /\ shouldInterrupt' = TRUE
    /\ UNCHANGED <<data, stringOccurrences, occurrenceIndex,
                   provider, searchRegion, mode, settings, pc, it, results, progress,
                   matchedBytes, countedCharacters, startAddress, bytes, validBytes, address,
                   parseVars, sessionVars>>

\* a Reset button that clears the results of every provider
resetResultsEverywhere ==
    /\ ~SearchRunning
    /\ m_foundOccurrences[currentProvider] # <<>>
    /\ m_foundOccurrences' = [p \in Providers |-> <<>>]
    /\ m_sortedOccurrences' = [p \in Providers |-> Vector(m_sortedOccurrences[p].slots, 0)]
    /\ m_occurrenceTree' = [p \in Providers |-> <<>>]
    /\ untouched' = FALSE
    /\ filterLog' = <<>>
    /\ UNCHANGED <<engineVars, parseVars, currentProvider, m_currFilter, m_decodeSettings,
                   filterTasks, beforeSearch, submittedProvider, maxValue>>

\* a Reset button that leaves m_occurrenceTree[provider] as it is
resetResultsKeepsTree ==
    /\ ~SearchRunning
    /\ m_foundOccurrences[currentProvider] # <<>>
    /\ m_foundOccurrences' = [m_foundOccurrences EXCEPT ![currentProvider] = <<>>]
    /\ m_sortedOccurrences' = [m_sortedOccurrences EXCEPT ![currentProvider] = Vector(@.slots, 0)]
    /\ m_occurrenceTree' = m_occurrenceTree
    /\ untouched' = FALSE
    /\ filterLog' = <<>>
    /\ UNCHANGED <<engineVars, parseVars, currentProvider, m_currFilter, m_decodeSettings,
                   filterTasks, beforeSearch, submittedProvider, maxValue>>

\* the Reset button
resetResults ==
    /\ ~SearchRunning
    /\ m_foundOccurrences[currentProvider] # <<>>
    /\ m_foundOccurrences' = [m_foundOccurrences EXCEPT ![currentProvider] = <<>>]
    /\ m_sortedOccurrences' = [m_sortedOccurrences EXCEPT ![currentProvider] = Vector(@.slots, 0)]
    /\ m_occurrenceTree' = [m_occurrenceTree EXCEPT ![currentProvider] = <<>>]
    /\ untouched' = FALSE
    /\ filterLog' = <<>>
    /\ UNCHANGED <<engineVars, parseVars, currentProvider, m_currFilter, m_decodeSettings,
                   filterTasks, beforeSearch, submittedProvider, maxValue>>

\* another provider becomes the selected one
providerChanged(p) ==
    /\ p # currentProvider
    /\ currentProvider' = p
    /\ filterLog' = <<>>
    /\ UNCHANGED <<engineVars, parseVars, m_foundOccurrences, m_sortedOccurrences,
                   m_occurrenceTree, m_currFilter, m_decodeSettings, filterTasks, beforeSearch,
                   submittedProvider, maxValue,
                   untouched>>

\* TaskManager::createTask("Filtering", ...) for the working copy of provider p
FilterTask(p) ==
    [provider |-> p, pc |-> "created", result |-> 0, i |-> 0, last |-> 0,
     shouldInterrupt |-> FALSE, held |-> TRUE]

\* m_filterTask.interrupt() if m_filterTask.isRunning()
InterruptHeld(tasks) ==
    [k \in 1..Len(tasks) |->
        IF tasks[k].held THEN [tasks[k] EXCEPT !.shouldInterrupt = TRUE] ELSE tasks[k]]

\* m_filterTask = ...: the holder lets go of the task it held
Released(tasks) == [k \in 1..Len(tasks) |-> [tasks[k] EXCEPT !.held = FALSE]]

\* the filter input reports an edit
filterEdited(text) ==
    /\ text # m_currFilter[currentProvider]
    /\ Len(filterLog) < MaxFilterEdits
    /\ text # <<>> => Len(filterTasks) < MaxFilterTasks
    /\ m_currFilter' = [m_currFilter EXCEPT ![currentProvider] = text]
    /\ IF Len(m_currFilter[currentProvider]) > Len(text)
       THEN /\ m_sortedOccurrences' = [m_sortedOccurrences EXCEPT
                   ![currentProvider] = VectorAssign(@, m_foundOccurrences[currentProvider])]
            /\ untouched' = FALSE
       ELSE UNCHANGED <<m_sortedOccurrences, untouched>>
    /\ filterTasks' = IF text = <<>>
                      THEN InterruptHeld(filterTasks)
                      ELSE Append(Released(InterruptHeld(filterTasks)), FilterTask(currentProvider))
    /\ filterLog' = Append(filterLog, text)
    /\ UNCHANGED <<engineVars, parseVars, currentProvider, m_foundOccurrences,
                   m_occurrenceTree, m_decodeSettings, beforeSearch, submittedProvider, maxValue>>

RemoveAt(tasks, k) == SubSeq(tasks, 1, k - 1) \o SubSeq(tasks, k + 1, Len(tasks))

\* the filter task starts: currOccurrences.begin() and currOccurrences.end() are taken
filterTaskBegin(k) ==
    /\ k \in DOMAIN filterTasks
    /\ filterTasks[k].pc = "created"
    /\ filterTasks' = [filterTasks EXCEPT ![k] =
           [@ EXCEPT !.pc = "find", !.last = m_sortedOccurrences[filterTasks[k].provider].size]]
    /\ UNCHANGED <<engineVars, parseVars, currentProvider, m_foundOccurrences,
                   m_sortedOccurrences, m_occurrenceTree, m_currFilter, m_decodeSettings,
                   beforeSearch, submittedProvider, maxValue, untouched, filterLog>>

\* the task after the predicate was evaluated for the element at task.i
AfterPredicate(task, out) ==
    IF task.pc = "find"
    THEN IF out THEN [task EXCEPT !.pc = "move", !.i = @ + 1]
         ELSE [task EXCEPT !.i = @ + 1, !.result = @ + 1]
    ELSE IF out THEN [task EXCEPT !.i = @ + 1]
         ELSE [task EXCEPT !.i = @ + 1, !.result = @ + 1]

\* one call of the predicate by std::remove_if: task.update(), the test, and the move of a
\* kept element down to the first free place
filterTaskElement(k) ==
    /\ k \in DOMAIN filterTasks
    /\ filterTasks[k].pc \in {"find", "move"}
    /\ filterTasks[k].i < filterTasks[k].last
    /\ IF filterTasks[k].shouldInterrupt
       THEN /\ filterTasks' = RemoveAt(filterTasks, k)
            /\ UNCHANGED <<m_sortedOccurrences, untouched>>
       ELSE LET p == filterTasks[k].provider
                out == FilteredOut(p, m_sortedOccurrences[p].slots[filterTasks[k].i + 1])
            IN  /\ filterTasks' = [filterTasks EXCEPT ![k] = AfterPredicate(@, out)]
                /\ IF filterTasks[k].pc = "move" /\ ~out
                   THEN /\ m_sortedOccurrences' = [m_sortedOccurrences EXCEPT
                               ![p] = Vector([@.slots EXCEPT ![filterTasks[k].result + 1] =
                                                  m_sortedOccurrences[p].slots[filterTasks[k].i + 1]],
                                             @.size)]
                        /\ untouched' = FALSE
                   ELSE UNCHANGED <<m_sortedOccurrences, untouched>>
    /\ UNCHANGED <<engineVars, parseVars, currentProvider, m_foundOccurrences,
                   m_occurrenceTree, m_currFilter, m_decodeSettings, beforeSearch,
                   submittedProvider, maxValue, filterLog>>

\* currOccurrences.erase(remove_if(...), currOccurrences.end()); the task ends.  The end
\* passed to erase is taken before or after remove_if ran; iterators that are no longer a
\* range of the vector leave it with any size its storage allows
filterTaskErase(k) ==
    /\ k \in DOMAIN filterTasks
    /\ filterTasks[k].pc \in {"find", "move"}
    /\ filterTasks[k].i = filterTasks[k].last
    /\ filterTasks' = RemoveAt(filterTasks, k)
    /\ \E end \in {filterTasks[k].last, m_sortedOccurrences[filterTasks[k].provider].size} :
          LET p == filterTasks[k].provider
              first == filterTasks[k].result
          IN  IF first = end
              THEN UNCHANGED <<m_sortedOccurrences, untouched>>
              ELSE /\ untouched' = FALSE
                   /\ IF first < end /\ end <= m_sortedOccurrences[p].size
                      THEN m_sortedOccurrences' = [m_sortedOccurrences EXCEPT
                               ![p] = VectorErase(@, first, end)]
                      ELSE \E size \in 0..Len(m_sortedOccurrences[p].slots) :
                               m_sortedOccurrences' = [m_sortedOccurrences EXCEPT
                                   ![p] = Vector(@.slots, size)]
    /\ UNCHANGED <<engineVars, parseVars, currentProvider, m_foundOccurrences,
                   m_occurrenceTree, m_currFilter, m_decodeSettings, beforeSearch,
                   submittedProvider, maxValue, filterLog>>

InitSession ==
    /\ data = SessionData
    /\ provider = "P" /\ searchRegion = Region(0, 1)
    /\ mode = "Sequence" /\ settings = [sequence |-> <<>>] /\ pc = "idle"
    /\ it = 0 /\ results = <<>> /\ progress = 0
    /\ matchedBytes = 0 /\ countedCharacters = 0 /\ startAddress = 0
    /\ bytes = <<>> /\ validBytes = 0 /\ address = 0
    /\ shouldInterrupt = FALSE
    /\ stringOccurrences = <<>> /\ occurrenceIndex = 0
    /\ ParseIdle
    /\ SessionIdle

NextSearch ==
    \/ \E search \in SessionSearches : runSearch(search)
    \/ searchTaskProvider
    \/ searchSequenceBegin
    \/ searchSequence
    \/ searchBinaryPatternBegin
    \/ searchBinaryPattern
    \/ searchValueBegin
    \/ searchValue
    \/ searchStringsBegin
    \/ searchStrings
    \/ storeFound
    \/ storeSorted
    \/ storeTree
    \/ interruptSearch
    \/ resetResults
    \/ \E p \in Providers : providerChanged(p)

\* searches, their interruption, Reset and the change of the selected provider
SpecSearch == InitSession /\ [][NextSearch]_vars

SessionStrings ==
    <<Occurrence(0, 1, "ASCII", "native"), Occurrence(2, 3, "ASCII", "native"),
      Occurrence(6, 2, "ASCII", "native")>>

\* the state SpecSearch is in after the strings search of provider P has completed
InitFilter ==
    /\ data = SessionData
    /\ provider = "P" /\ searchRegion = Region(0, 8)
    /\ mode = "Strings" /\ settings = StringsSettings(1, FALSE, "ASCII", {"lower"})
    /\ pc = "idle"
    /\ it = 0 /\ results = <<>> /\ progress = 0
    /\ matchedBytes = 0 /\ countedCharacters = 0 /\ startAddress = 0
    /\ bytes = <<>> /\ validBytes = 0 /\ address = 0
    /\ shouldInterrupt = FALSE
    /\ stringOccurrences = <<>> /\ occurrenceIndex = 0
    /\ ParseIdle
    /\ currentProvider = "P"
    /\ m_foundOccurrences = [p \in Providers |-> IF p = "P" THEN SessionStrings ELSE <<>>]
    /\ m_sortedOccurrences =
           [p \in Providers |-> IF p = "P" THEN Vector(SessionStrings, 3) ELSE Vector(<<>>, 0)]
    /\ m_occurrenceTree =
           [p \in Providers |-> IF p = "P" THEN Intervals(SessionStrings) ELSE <<>>]
    /\ m_currFilter = [p \in Providers |-> <<>>]
    /\ m_decodeSettings = "Strings"
    /\ filterTasks = <<>>
    /\ beforeSearch = NoSnapshot
    /\ submittedProvider = "P"
    /\ maxValue = 0
    /\ untouched = TRUE
    /\ filterLog = <<>>

NextFilter ==
    \/ \E text \in FilterTexts : filterEdited(text)
    \/ \E k \in 1..MaxFilterTasks : filterTaskBegin(k)
    \/ \E k \in 1..MaxFilterTasks : filterTaskElement(k)
    \/ \E k \in 1..MaxFilterTasks : filterTaskErase(k)

\* the filter input and its tasks over the results of a completed search
SpecFilter == InitFilter /\ [][NextFilter]_vars

\* a is b with some of its elements removed
RECURSIVE IsSubSeq(_, _)
IsSubSeq(a, b) ==
    IF a = <<>> THEN TRUE
    ELSE IF b = <<>> THEN FALSE
    ELSE IF Head(a) = Head(b) THEN IsSubSeq(Tail(a), Tail(b))
    ELSE IsSubSeq(a, Tail(b))

\* the occurrences whose decoded value contains the text
Containing(occurrences, p, text) ==
    SelectSeq(occurrences, LAMBDA o : containsIgnoreCase(decodeValue(p, o), text))

WorkingCopy(p) == Elements(m_sortedOccurrences[p])

\* C10: after the filter was set to "ab" and then to "abc", and the passes have ended, the
\* working copy is the "ab" result with entries removed; after it was then set back to "ab",
\* and the passes have ended, the working copy is exactly the found occurrences whose decoded
\* value contains "ab".
C10_FilterNarrowing ==
    /\ (filterLog = <<<<97, 98>>, <<97, 98, 99>>>> /\ filterTasks = <<>>)
          => IsSubSeq(WorkingCopy(currentProvider),
                      Containing(m_foundOccurrences[currentProvider], currentProvider, <<97, 98>>))
    /\ (filterLog = <<<<97, 98>>, <<97, 98, 99>>, <<97, 98>>>> /\ filterTasks = <<>>)
          => WorkingCopy(currentProvider) =
                Containing(m_foundOccurrences[currentProvider], currentProvider, <<97, 98>>)

-----------------------------------------------------------------------------
(* The occurrence index and the providers that query it *)

\* IntervalTree::findOverlapping(start, stop): the stored intervals that share an address
\* with [start, stop], both ends included
findOverlapping(tree, start, stop) ==
    SelectSeq(tree, LAMBDA interval : interval.stop >= start /\ interval.start <= stop)

\* the addresses of a provider, and the first address past its end
Addresses(p) == 0..Len(data[p])

\* the occurrence covers the address
Covers(occurrence, a) ==
    occurrence.region.address <= a /\ a < occurrence.region.address + occurrence.region.size

\* the occurrences a point query of the index of provider p returns
PointQuery(p, a) ==
    {findOverlapping(m_occurrenceTree[p], a, a)[k].value :
        k \in 1..Len(findOverlapping(m_occurrenceTree[p], a, a))}

\* C11: once the index of a provider was rebuilt from its found occurrences, a point query
\* at an address inside a found occurrence's region returns that occurrence, and a point
\* query at an address no region covers, the address right after a region's last byte
\* included, returns nothing.
C11_PointQueries ==
    ~SearchRunning =>
        \A p \in Providers : \A a \in Addresses(p) :
            /\ \A k \in 1..Len(m_foundOccurrences[p]) :
                  Covers(m_foundOccurrences[p][k], a) => m_foundOccurrences[p][k] \in PointQuery(p, a)
            /\ (\A k \in 1..Len(m_foundOccurrences[p]) : ~Covers(m_foundOccurrences[p][k], a))
                  => PointQuery(p, a) = {}

\* the strings search of provider P has completed: the index holds the regions 0..0, 2..4
\* and 6..7, address 4 is covered, address 5 right after it and address 8 are not
C11_Witness ==
    /\ pc = "idle"
    /\ Len(m_occurrenceTree["P"]) = 3
    /\ m_foundOccurrences["P"] = SessionStrings
    /\ PointQuery("P", 4) = {SessionStrings[2]}
    /\ PointQuery("P", 5) = {}
    /\ PointQuery("P", 8) = {}

-----------------------------------------------------------------------------
(* The tabs of the Find view and the Search button *)

\* hex::decodeByteString for texts without a complete escape sequence: plain characters are
\* their bytes, a backslash that starts no complete escape makes the text undecodable
decodeByteString(string) ==
    IF \E i \in 1..Len(string) : string[i] = 92 THEN <<>> ELSE string

Modes == {"Strings", "Sequence", "BinaryPattern", "Value"}

\* "", "ab", "a\"
SequenceTexts == {<<>>, <<97, 98>>, <<97, 92>>}

\* "61", "6"
PatternTexts == {<<54, 49>>, <<54>>}

\* "", "98"
ValueTexts == {<<>>, <<57, 56>>}

\* "ab" in provider P, two zero bytes in provider Q
TabsData == [p \in Providers |-> IF p = "P" THEN <<97, 98>> ELSE <<0, 0>>]

TabTypes == {"U8", "U16"}

\* minValid && maxValid && minSize == maxSize
ValueBoundsValid(min, max) == min.valid /\ max.valid /\ min.size = max.size

\* what the tab of the selected mode assigns to m_settingsValid in a frame
TabValid(s, edited, valid) ==
    CASE s.mode = "Strings" -> TRUE
      [] s.mode = "Sequence" -> s.sequence # <<>> /\ decodeByteString(s.sequence) # <<>>
      [] s.mode = "BinaryPattern" -> s.pattern # <<>>
      [] s.mode = "Value" ->
            IF edited
            THEN ValueBoundsValid(parseNumericValueInput(s.inputMin, s.type),
                                  parseNumericValueInput(s.inputMax, s.type))
            ELSE valid

\* a frame of drawContent with the given fields: the selected tab is drawn
tabDrawn(s, edited) ==
    /\ ~SearchRunning
    /\ m_searchSettings' = s
    /\ m_settingsValid' = TabValid(s, edited, m_settingsValid)
    /\ UNCHANGED <<input, inputType, parsed, selection, sortSpecs, popupFind, findLog, query,
                   eventVars, engineVars, sessionVars>>

\* the tab of another mode is clicked
tabSelected(m) ==
    /\ m # m_searchSettings.mode
    /\ tabDrawn([m_searchSettings EXCEPT !.mode = m], FALSE)

\* the field of the sequence tab is edited
sequenceEdited(text) ==
    /\ m_searchSettings.mode = "Sequence"
    /\ text # m_searchSettings.sequence
    /\ tabDrawn([m_searchSettings EXCEPT !.sequence = text], FALSE)

\* the field of the binary pattern tab is edited: the tab parses its input
binaryPatternEdited(text) ==
    /\ m_searchSettings.mode = "BinaryPattern"
    /\ text # m_searchSettings.input
    /\ tabDrawn([m_searchSettings EXCEPT !.input = text,
                                         !.pattern = parseBinaryPatternString(text)], FALSE)

\* a field of the value tab is edited or another type is selected
valueEdited(min, max, type) ==
    /\ m_searchSettings.mode = "Value"
    /\ <<min, max, type>> #
           <<m_searchSettings.inputMin, m_searchSettings.inputMax, m_searchSettings.type>>
    /\ tabDrawn([m_searchSettings EXCEPT !.inputMin = min, !.inputMax = max, !.type = type],
                TRUE)

\* settings = this->m_searchSettings, as the engines of the model take them
SearchOf(s) ==
    CASE s.mode = "Strings" ->
            [mode |-> "Strings", settings |-> StringsSettings(1, FALSE, "ASCII", {"lower"})]
      [] s.mode = "Sequence" ->
            [mode |-> "Sequence", settings |-> [sequence |-> decodeByteString(s.sequence)]]
      [] s.mode = "BinaryPattern" ->
            [mode |-> "BinaryPattern", settings |-> [pattern |-> s.pattern]]
      [] s.mode = "Value" ->
            [mode |-> "Value",
             settings |-> [inputMin |-> s.inputMin, inputMax |-> s.inputMax, type |-> s.type,
                           endian |-> "little"]]

\* the Search button is pressed: it is disabled unless m_settingsValid
searchPressed ==
    /\ m_settingsValid
    /\ runSearch(SearchOf(m_searchSettings))

\* the view after its first frame: the strings tab is selected and every field is empty
InitTabs ==
    /\ data = TabsData
    /\ provider = "P" /\ searchRegion = Region(0, 1)
    /\ mode = "Sequence" /\ settings = [sequence |-> <<>>] /\ pc = "idle"
    /\ it = 0 /\ results = <<>> /\ progress = 0
    /\ matchedBytes = 0 /\ countedCharacters = 0 /\ startAddress = 0
    /\ bytes = <<>> /\ validBytes = 0 /\ address = 0
    /\ shouldInterrupt = FALSE
    /\ stringOccurrences = <<>> /\ occurrenceIndex = 0
    /\ ParseIdle
    /\ SessionIdle

NextTabs ==
    \/ \E m \in Modes : tabSelected(m)
    \/ \E text \in SequenceTexts : sequenceEdited(text)
    \/ \E text \in PatternTexts : binaryPatternEdited(text)
    \/ \E min \in ValueTexts, max \in ValueTexts, type \in TabTypes : valueEdited(min, max, type)
    \/ searchPressed
    \/ searchTaskProvider
    \/ searchSequenceBegin
    \/ searchSequence
    \/ searchBinaryPatternBegin
    \/ searchBinaryPattern
    \/ searchValueBegin
    \/ searchValue
    \/ searchStringsBegin
    \/ searchStrings
    \/ storeFound
    \/ storeSorted
    \/ storeTree

\* tab switches, edits of the fields and searches started with the Search button
SpecTabs == InitTabs /\ [][NextTabs]_vars

\* the settings of the selected mode are valid: the pattern parses, the sequence decodes to
\* at least one byte, both bounds parse with the same width
SelectedSettingsValid ==
    TabValid(m_searchSettings, TRUE, FALSE)

\* C12: the Search action is enabled only if the current settings of the selected mode are
\* valid, and so a search task only runs with valid settings of its mode (the tabs are
\* disabled while it runs).
C12_SearchNeedsValidSettings ==
    (m_settingsValid \/ SearchRunning) => SelectedSettingsValid

-----------------------------------------------------------------------------
(* One search task *)

\* C13: a search task is created only while no search task is running: m_searchTask is
\* created by the Search button alone, and every press finds the task of the press before it
\* ended (completed or interrupted), so at most one search task runs at any time, for any
\* provider.
C13_OneSearchTask ==
    [][ (pc # "created" /\ pc' = "created") => pc \in {"idle", "interrupted"} ]_vars

\* a search task was created after an earlier one had stored its results
C13_Witness ==
    /\ pc = "created"
    /\ beforeSearch.found["P"] # <<>>
    /\ beforeSearch.found["Q"] # <<>>

-----------------------------------------------------------------------------
(* The provider a search task works on *)

\* the task body has resolved its provider and has not ended
TaskHasProvider == pc \in {"start", "scan", "scan2", "done", "storeSorted", "storeTree"}

\* the stored results of provider q
StoresOf(q) ==
    <<m_foundOccurrences[q], m_sortedOccurrences[q], m_occurrenceTree[q]>>

\* C14: the task of a search that was submitted while provider P was selected scans P and
\* writes the found list, the working copy and the index of P only, also when another
\* provider is selected before the task has ended.
C14_TaskKeepsItsProvider ==
    [][ /\ TaskHasProvider' => provider' = submittedProvider'
        /\ (pc \in {"done", "storeSorted", "storeTree"} /\ pc' # pc) =>
               \A q \in Providers \ {submittedProvider} : StoresOf(q)' = StoresOf(q) ]_vars

-----------------------------------------------------------------------------
(* The writers of a working copy *)

\* the filter tasks that are inside erase(remove_if(...)) over the working copy of provider p,
\* those included that were interrupted and have not reached their next task.update()
FilterWriters(p) ==
    {k \in DOMAIN filterTasks : filterTasks[k].provider = p /\ filterTasks[k].pc \in {"find", "move"}}

\* the search task is between its first and its last store for provider p
SearchWrites(p) == provider = p /\ pc \in {"storeSorted", "storeTree"}

\* the number of tasks that are writing the stored results of provider p
Writers(p) == Cardinality(FilterWriters(p)) + (IF SearchWrites(p) THEN 1 ELSE 0)

\* C15: at most one writer mutates the state of a provider at a time: no two tasks are at work
\* on the working copy of the same provider, and the view restores the working copy (a
\* shortened filter) only while no task is at work on it.
C15_SingleWriter ==
    [][ \A p \in Providers :
          /\ Writers(p)' <= 1
          /\ Len(m_currFilter'[p]) < Len(m_currFilter[p]) => Writers(p) = 0 ]_vars

-----------------------------------------------------------------------------
(* The highlight and tooltip callbacks registered by the constructor *)

QueryKinds == {"highlight", "tooltip"}

\* the frame code of the view and the callbacks run on the same thread: none of them starts
\* while a callback is in progress
UiIdle == query.stage = "idle"

\* a callback is called for an address and ignores m_searchTask.isRunning()
queryBeginUnchecked(kind, a) ==
    /\ UiIdle
    /\ query' = [stage |-> "checked", kind |-> kind, address |-> a, result |-> <<>>,
                 readTree |-> FALSE]
    /\ UNCHANGED <<input, inputType, parsed, tabVars, eventVars, engineVars, sessionVars>>

\* a callback is called for an address: if (m_searchTask.isRunning()) return
queryBegin(kind, a) ==
    /\ UiIdle
    /\ query' = [stage |-> IF SearchRunning THEN "idle" ELSE "checked", kind |-> kind,
                 address |-> a, result |-> <<>>, readTree |-> FALSE]
    /\ UNCHANGED <<input, inputType, parsed, tabVars, eventVars, engineVars, sessionVars>>

\* what the callback answers from the intervals found at its address: the highlight colour,
\* or one decoded row of the tooltip per interval
QueryAnswer(kind, occurrences) ==
    IF kind = "highlight"
    THEN (IF occurrences = <<>> THEN <<>> ELSE <<"HighlightColor">>)
    ELSE [k \in 1..Len(occurrences) |-> decodeValue(currentProvider, occurrences[k].value)]

\* m_occurrenceTree[ImHexApi::Provider::get()].findOverlapping(address, address)
queryRead ==
    /\ query.stage = "checked"
    /\ query' = [query EXCEPT
           !.stage = "idle",
           !.readTree = TRUE,
           !.result = QueryAnswer(query.kind,
                          findOverlapping(m_occurrenceTree[currentProvider], query.address,
                                          query.address))]
    /\ UNCHANGED <<input, inputType, parsed, tabVars, eventVars, engineVars, sessionVars>>

\* the strings of lower case letters and the sequence "ab"
RenderSearches == {search \in SessionSearches : search.mode \in {"Strings", "Sequence"}}

InitRender ==
    /\ data = TabsData
    /\ provider = "P" /\ searchRegion = Region(0, 1)
    /\ mode = "Sequence" /\ settings = [sequence |-> <<>>] /\ pc = "idle"
    /\ it = 0 /\ results = <<>> /\ progress = 0
    /\ matchedBytes = 0 /\ countedCharacters = 0 /\ startAddress = 0
    /\ bytes = <<>> /\ validBytes = 0 /\ address = 0
    /\ shouldInterrupt = FALSE
    /\ stringOccurrences = <<>> /\ occurrenceIndex = 0
    /\ ParseIdle
    /\ SessionIdle

NextRender ==
    \/ \E kind \in QueryKinds : \E a \in Addresses(currentProvider) : queryBegin(kind, a)
    \/ queryRead
    \/ UiIdle /\ \E search \in RenderSearches : runSearch(search)
    \/ UiIdle /\ interruptSearch
    \/ UiIdle /\ resetResults
    \/ UiIdle /\ \E p \in Providers : providerChanged(p)
    \/ searchTaskProvider
    \/ searchSequenceBegin
    \/ searchSequence
    \/ searchStringsBegin
    \/ searchStrings
    \/ storeFound
    \/ storeSorted
    \/ storeTree

\* the callbacks of the hex editor while searches are started, run and end
SpecRender == InitRender /\ [][NextRender]_vars

\* C16: while the search task is running, the highlight callback and the tooltip callback
\* answer nothing (no colour, no tooltip) for every address and do not read the occurrence
\* index.
C16_NoAnswerWhileSearching ==
    [][ (query' # query /\ SearchRunning) => (query'.result = <<>> /\ ~query'.readTree) ]_vars

\* the tooltip callback has answered nothing, without reading the index, for an address that
\* the index of the selected provider covers, while the search task is about to replace it
C16_Witness ==
    /\ pc = "storeTree"
    /\ provider = currentProvider
    /\ query = [stage |-> "idle", kind |-> "tooltip", address |-> 1, result |-> <<>>,
                readTree |-> FALSE]
    /\ findOverlapping(m_occurrenceTree[currentProvider], 1, 1) # <<>>

-----------------------------------------------------------------------------
(* Rendering of numeric occurrences *)

\* the number the bytes of an occurrence denote in its own type: the byte at the lowest
\* address is the least significant one for little endian and the most significant one for
\* big endian; a signed number with the top bit set is negative
RECURSIVE NumberAt(_, _, _, _)
NumberAt(p, a, size, endian) ==
    IF size = 0 THEN 0
    ELSE IF endian = "big"
         THEN data[p][a + size] + 256 * NumberAt(p, a, size - 1, endian)
         ELSE data[p][a + 1] + 256 * NumberAt(p, a + 1, size - 1, endian)

OccurrenceNumber(p, occurrence) ==
    LET n == NumberAt(p, occurrence.region.address, occurrence.region.size, occurrence.endian)
    IN  IF occurrence.decodeType = "Signed" /\ n >= 2 ^ (8 * occurrence.region.size - 1)
        THEN n - 2 ^ (8 * occurrence.region.size)
        ELSE n

\* the numeric occurrences stored for provider p
NumericOccurrences(p) ==
    {m_foundOccurrences[p][k] : k \in {j \in 1..Len(m_foundOccurrences[p]) :
                                          m_foundOccurrences[p][j].decodeType \in {"Unsigned", "Signed"}}}

\* C17: a numeric occurrence is rendered as the number its bytes denote in the occurrence's
\* type: an Unsigned one as the unsigned number, a Signed one narrower than 8 bytes
\* sign-extended from its own width.
C17_NumericRendering ==
    ~SearchRunning =>
        \A p \in Providers : \A occurrence \in NumericOccurrences(p) :
            decodeValue(p, occurrence) = FormatInteger(OccurrenceNumber(p, occurrence))

-----------------------------------------------------------------------------
(* EventManager *)

MaxSubscriptions == 3   \* event objects created by subscribe

HashBits == 32          \* u32 m_hash

\* a u32 as its bits, least significant first
Bits(n) == [i \in 0..(HashBits - 1) |-> IF i > 30 THEN 0 ELSE (n \div (2 ^ i)) % 2]

\* a ^ b
BitXor(a, b) == [i \in 0..(HashBits - 1) |-> (a[i] + b[i]) % 2]

\* (m_hash >> 5) | (m_hash << 27)
RotateRight5(h) == [i \in 0..(HashBits - 1) |-> h[(i + 5) % HashBits]]

\* the loop of the EventId constructor over the characters of func
RECURSIVE HashChars(_, _)
HashChars(h, func) ==
    IF func = <<>> THEN h
    ELSE HashChars(BitXor(RotateRight5(h), Bits(Head(func))), Tail(func))

\* __builtin_FUNCTION() inside the lambda of EVENT_DEF: "operator()"
EventIdFunction == <<111, 112, 101, 114, 97, 116, 111, 114, 40, 41>>

\* EventId(func, line)
EventId(func, line) == HashChars(BitXor(Bits(line), Bits(987654321)), func)

\* the events the hex editor view subscribes to, and the lines of their EVENT_DEF
Events == {"RequestSelectionChange", "EventProviderChanged"}

EventLine(e) == IF e = "RequestSelectionChange" THEN 165 ELSE 154

\* E::id of every event
EventIds == [e \in Events |-> EventId(EventIdFunction, EventLine(e))]

\* E::id
IdOf(e) == EventIds[e]

\* the objects that pass this as their token
Tokens == {"ViewHexEditor", "PopupFind"}

\* the event object the next subscribe creates: new E(function)
NewEvent == Len(callbacks) + 1

\* subscribe<E>(function), as both overloads perform it
Subscribed(token, e) ==
    /\ Len(callbacks) < MaxSubscriptions
    /\ s_events' = Append(s_events, [id |-> IdOf(e), event |-> NewEvent])
    /\ callbacks' = Append(callbacks, [token |-> token, event |-> e, unsubscribed |-> FALSE,
                                        cleared |-> FALSE])
    /\ posted' = NoPost

\* subscribe<E>(function): the iterator it returns is not kept
subscribe(e) ==
    /\ Subscribed("none", e)
    /\ UNCHANGED <<s_tokenStore, input, inputType, parsed, tabVars, query, engineVars, sessionVars>>

\* std::map::insert: an element whose key is already in the map is not inserted
MapInsert(map, key, value) ==
    IF key \in DOMAIN map THEN map
    ELSE [k \in DOMAIN map \cup {key} |-> IF k = key THEN value ELSE map[k]]

\* subscribe<E>(token, function)
subscribeToken(token, e) ==
    /\ Subscribed(token, e)
    /\ s_tokenStore' = MapInsert(s_tokenStore, token, NewEvent)
    /\ UNCHANGED <<input, inputType, parsed, tabVars, query, engineVars, sessionVars>>

\* item.second->first: the id in the list node an iterator of the token store points to
NodeId(event) ==
    LET k == CHOOSE k \in 1..Len(s_events) : s_events[k].event = event IN s_events[k].id

\* the subscriptions made with the token for the event are no longer wanted
MarkUnsubscribed(token, e) ==
    [n \in 1..Len(callbacks) |->
        IF callbacks[n].token = token /\ callbacks[n].event = e
        THEN [callbacks[n] EXCEPT !.unsubscribed = TRUE] ELSE callbacks[n]]

\* unsubscribe<E>(token)
unsubscribe(token, e) ==
    /\ IF token \in DOMAIN s_tokenStore /\ NodeId(s_tokenStore[token]) = IdOf(e)
       THEN /\ s_events' = SelectSeq(s_events, LAMBDA item :
                               item # [id |-> IdOf(e), event |-> s_tokenStore[token]])
            /\ s_tokenStore' = [k \in DOMAIN s_tokenStore \ {token} |-> s_tokenStore[k]]
       ELSE UNCHANGED <<s_events, s_tokenStore>>
    /\ callbacks' = MarkUnsubscribed(token, e)
    /\ posted' = NoPost
    /\ UNCHANGED <<input, inputType, parsed, tabVars, query, engineVars, sessionVars>>

\* the event objects of a list of pairs
EventsOf(items) == [k \in 1..Len(items) |-> items[k].event]

\* post<E> that calls every event object of the list
postAll(e) ==
    /\ posted' = [event |-> e, invoked |-> EventsOf(s_events)]
    /\ UNCHANGED <<s_events, s_tokenStore, callbacks, input, inputType, parsed, tabVars, query,
                   engineVars, sessionVars>>

\* post<E>(args...): the event objects called, in the order of the list
post(e) ==
    /\ posted' = [event |-> e,
                  invoked |-> EventsOf(SelectSeq(s_events, LAMBDA item : item.id = IdOf(e)))]
    /\ UNCHANGED <<s_events, s_tokenStore, callbacks, input, inputType, parsed, tabVars, query,
                   engineVars, sessionVars>>

\* clear()
clear ==
    /\ s_events # <<>>
    /\ s_events' = <<>>
    /\ s_tokenStore' = <<>>
    /\ callbacks' = [n \in 1..Len(callbacks) |-> [callbacks[n] EXCEPT !.cleared = TRUE]]
    /\ posted' = NoPost
    /\ UNCHANGED <<input, inputType, parsed, tabVars, query, engineVars, sessionVars>>

InitEvents ==
    /\ EngineIdle
    /\ SessionIdle
    /\ ParseIdle

NextEvents ==
    \/ \E e \in Events : subscribe(e)
    \/ \E token \in Tokens, e \in Events : subscribeToken(token, e)
    \/ \E token \in Tokens, e \in Events : unsubscribe(token, e)
    \/ \E e \in Events : post(e)
    \/ clear

\* subscriptions, removals and posts in any order
SpecEvents == InitEvents /\ [][NextEvents]_vars

\* C18: after unsubscribe<E>(token), a post of E does not call a callback that was subscribed
\* to E with that token, whatever was subscribed before with the same token.
C18_UnsubscribedNotCalled ==
    \A k \in 1..Len(posted.invoked) : ~callbacks[posted.invoked[k]].unsubscribed

\* the event objects subscribed to e and neither unsubscribed nor cleared, oldest first
CurrentSubscribers(e) ==
    SelectSeq([n \in 1..Len(callbacks) |-> n],
              LAMBDA n : callbacks[n].event = e /\ ~callbacks[n].unsubscribed /\ ~callbacks[n].cleared)

\* C19: post<E> calls every callback that is subscribed to E once and in the order of the
\* subscriptions, calls no callback of another event, and calls no callback that was
\* subscribed before the last clear().
C19_PostCallsSubscribers ==
    posted # NoPost =>
        /\ SelectSeq(posted.invoked, LAMBDA n : ~callbacks[n].unsubscribed)
               = CurrentSubscribers(posted.event)
        /\ \A k \in 1..Len(posted.invoked) :
              /\ callbacks[posted.invoked[k]].event = posted.event
              /\ ~callbacks[posted.invoked[k]].cleared

\* a post called the first and the third subscriber, both of its event, in this order and
\* passed over the second one, a subscriber of the other event
C19_Witness ==
    /\ posted.invoked = <<1, 3>>
    /\ Len(s_events) = 3
    /\ callbacks[2].event # posted.event

-----------------------------------------------------------------------------
(* The stored results of a provider *)

\* the index of provider p holds one interval per found occurrence and nothing else
IndexHoldsFound(p) ==
    /\ Len(m_occurrenceTree[p]) = Len(m_foundOccurrences[p])
    /\ \A k \in 1..Len(m_foundOccurrences[p]) :
          m_occurrenceTree[p][k].value = m_foundOccurrences[p][k]

\* the step in which a search task that was not interrupted ends
SearchCompletes == pc = "storeTree" /\ pc' = "idle"

\* C20: when a search completes, the found list of its provider is what the engine returned,
\* the working copy equals the found list and the index holds one interval per found
\* occurrence; and whenever no search task is running, the index of every provider holds the
\* occurrences of its found list, after Reset too.
C20_StoredResultsAgree ==
    /\ [](~SearchRunning => \A p \in Providers : IndexHoldsFound(p))
    /\ [][ SearchCompletes =>
              /\ m_foundOccurrences'[provider] = results
              /\ Elements(m_sortedOccurrences'[provider]) = m_foundOccurrences'[provider]
              /\ IndexHoldsFound(provider)' ]_vars

\* searches of both providers have completed and the results of Q were reset afterwards
C20_Witness ==
    /\ pc = "idle"
    /\ Len(m_foundOccurrences["P"]) >= 2
    /\ Len(m_occurrenceTree["P"]) >= 2
    /\ Elements(m_sortedOccurrences["P"]) = m_foundOccurrences["P"]
    /\ m_foundOccurrences["Q"] = <<>>
    /\ m_occurrenceTree["Q"] = <<>>
    /\ m_sortedOccurrences["Q"].slots # <<>>

\* ---------------------------------------------------------------------------------------------
\* The range of a search: the scope picker of the view and the selection of the hex editor
\* ---------------------------------------------------------------------------------------------

\* P: "bab"
RangeData == [p \in Providers |-> <<98, 97, 98>>]

\* ui::SelectedRegion
SelectedRegions == {"EntireData", "Selection"}

RangeModes == {"Strings", "Sequence"}

\* what the hex editor can hold as its selection
Selections == RegionsOf(Len(RangeData["P"])) \cup {NoSelection}

\* ui::regionSelectionPicker(&this->m_searchSettings.range, true, true): another scope is picked
rangePicked(r) ==
    /\ r # m_searchSettings.range
    /\ tabDrawn([m_searchSettings EXCEPT !.range = r], FALSE)

\* ImHexApi::HexEditor::setSelection: the hex editor selects a region or drops its selection
selectionChanged(sel) ==
    /\ sel # selection
    /\ selection' = sel
    /\ UNCHANGED <<input, inputType, parsed, m_searchSettings, m_settingsValid, sortSpecs,
                   popupFind, findLog, query, eventVars, engineVars, sessionVars>>

InitRange ==
    /\ data = RangeData
    /\ provider = "P" /\ searchRegion = Region(0, 1)
    /\ mode = "Sequence" /\ settings = [sequence |-> <<>>] /\ pc = "idle"
    /\ it = 0 /\ results = <<>> /\ progress = 0
    /\ matchedBytes = 0 /\ countedCharacters = 0 /\ startAddress = 0
    /\ bytes = <<>> /\ validBytes = 0 /\ address = 0
    /\ shouldInterrupt = FALSE
    /\ stringOccurrences = <<>> /\ occurrenceIndex = 0
    /\ ParseIdle
    /\ SessionIdle

NextRange ==
    \/ \E r \in SelectedRegions : rangePicked(r)
    \/ \E sel \in Selections : selectionChanged(sel)
    \/ \E m \in RangeModes : tabSelected(m)
    \/ \E text \in SequenceTexts : sequenceEdited(text)
    \/ searchPressed
    \/ searchTaskProvider
    \/ searchSequenceBegin
    \/ searchSequence
    \/ searchStringsBegin
    \/ searchStrings
    \/ storeFound
    \/ storeSorted
    \/ storeTree

\* the scope picker, the selection of the hex editor, the tabs and the searches they start
SpecRange == InitRange /\ [][NextRange]_vars

\* a step in which runSearch() creates the search task
SearchStarts == pc # "created" /\ pc' = "created"

\* C21: the task runSearch creates scans the selection when the scope is not "entire data" and
\* a selection exists, and in every other case the whole provider from its base address; its
\* total work is the size of that range
C21_SearchRange ==
    [][SearchStarts =>
          /\ (m_searchSettings.range # "EntireData" /\ selection # NoSelection)
                => searchRegion' = selection
          /\ ~(m_searchSettings.range # "EntireData" /\ selection # NoSelection)
                => searchRegion' = Region(0, Len(data[currentProvider]))
          /\ maxValue' = searchRegion'.size]_vars

\* a search was started on a selection that does not begin at the base address
C21_Witness ==
    /\ pc = "created"
    /\ m_searchSettings.range = "Selection"
    /\ searchRegion = selection
    /\ searchRegion.address > 0
    /\ maxValue = selection.size

\* C22: while the search task runs, its mode, its parameters, its range and its total work
\* stay what runSearch gave it, whatever happens to the settings of the view and the selection
C22_SettingsSnapshot ==
    [][SearchRunning /\ SearchRunning' =>
          UNCHANGED <<mode, settings, searchRegion, maxValue>>]_vars

\* the selection the range was resolved from changed while the task is scanning
C22_Witness ==
    /\ pc \in {"scan", "scan2"}
    /\ m_searchSettings.range = "Selection"
    /\ selection # NoSelection
    /\ selection # searchRegion
    /\ SearchRegion # searchRegion

-----------------------------------------------------------------------------
(* The filter passes of one provider *)

\* C23: only one filter pass is at work on the working copy of a provider at a time: a filter
\* task that was running when the text changed has ended before the next one goes to work, so
\* no filter task writes the working copy while another filter task is inside
\* erase(remove_if(...)) over the same vector.
C23_OneFilterPass ==
    [][ \A p \in Providers :
          (m_currFilter' = m_currFilter /\ m_sortedOccurrences'[p] # m_sortedOccurrences[p])
             => Cardinality(FilterWriters(p)) <= 1 ]_vars

-----------------------------------------------------------------------------
(* Cancellation, progress and order of the scans *)

\* a step of the engine that is scanning: it moves the reader or leaves the scan
ScanStep == pc \in {"scan", "scan2"} /\ (it' # it \/ pc' # pc)

\* the number of bytes the reader moves over in a scan step between the step's
\* task.update() and the next one (or the return of the engine)
ScannedUnpolled ==
    CASE pc' = "interrupted" -> 0
      [] mode = "Sequence" /\ pc' = "done" -> ReaderEnd - it
      [] mode = "Sequence" /\ pc' # "done" -> (it' - 1) + Len(settings.sequence) - it
      [] mode = "Value" /\ pc' # "done" /\ validBytes < SizeOf(settings.type) -> validBytes'
      [] OTHER -> it' - it

\* one position of the scan: the bytes an engine has to read to decide one address
ScanPosition ==
    CASE mode = "Sequence" -> Len(settings.sequence)
      [] mode = "Value" -> SizeOf(settings.type)
      [] OTHER -> 1

\* C25: every engine polls for cancellation at least once per position of its scan: between
\* two polls, and between the last poll and its return, the reader moves over no more bytes
\* than one position takes, whatever the size of the range and whether or not a match exists;
\* so an interrupt is noticed after that many further bytes at most.
C25_BoundedPolling ==
    [][ScanStep => ScannedUnpolled <= ScanPosition]_vars

\* a scan step that calls task.update(value) with a progress value
ReportsProgress ==
    /\ ScanStep
    /\ mode = "Sequence" \/ it # ReaderEnd
    /\ mode = "Value" => validBytes = SizeOf(settings.type)

\* the value the step hands to task.update: searchValue passes its address, the other engines
\* the local progress they have set in an earlier iteration
ReportedProgress == IF mode = "Value" THEN address ELSE progress

\* C26: every progress value an engine reports lies between 0 and the size of the search
\* range, the total work of the task, also for a range that does not start at address 0, and
\* the progress of one pass over the range never decreases.
C26_ProgressInRange ==
    [][ /\ ReportsProgress => ReportedProgress \in 0..searchRegion.size
        /\ (ScanStep /\ pc' = pc) => progress' >= progress ]_vars

InitEngines == InitSequence \/ InitBinaryPattern \/ InitValue \/ InitStrings

NextEngines == NextSequence \/ NextBinaryPattern \/ NextValue \/ NextStrings

\* one search of any of the four engines over any range of any provider contents
SpecEngines == InitEngines /\ [][NextEngines]_vars

\* every occurrence starts at a higher address than the one before it
Ascending(occurrences) ==
    \A i \in 1..(Len(occurrences) - 1) :
        occurrences[i].region.address < occurrences[i + 1].region.address

\* C27: within one search by searchSequence, searchBinaryPattern, searchValue or searchStrings
\* with a single encoding, the occurrences are appended in strictly ascending order of their
\* start addresses.
C27_AscendingResults ==
    ~(mode = "Strings" /\ IsCombined(settings.type)) => Ascending(results)

\* a strings search of one encoding has returned a run of several bytes and a later one
C27_Witness ==
    /\ pc = "done"
    /\ mode = "Strings" /\ ~IsCombined(settings.type)
    /\ Len(results) >= 2
    /\ results[1].region.size > 1

-----------------------------------------------------------------------------
(* UTF-16 strings, null termination and the regex engine *)

\* the n bytes from address a alternate between a byte of an enabled class and 0x00: the class
\* byte at the even offsets for UTF16LE, at the odd offsets for UTF16BE
Alternates(type, a, n) ==
    \A k \in 0..(n - 1) :
        IF (k % 2 = 0) = (type = "UTF16LE")
        THEN ValidChar(settings, data[provider][a + k + 1])
        ELSE data[provider][a + k + 1] = 0

\* every reported occurrence is an alternating sequence
UTF16Sound ==
    \A i \in 1..Len(results) :
        Alternates(settings.type, results[i].region.address, results[i].region.size)

\* every address at which minLength bytes of the range alternate is covered by an occurrence
UTF16Covered ==
    \A a \in searchRegion.address..(ReaderEnd - 1) :
        (a + settings.minLength <= ReaderEnd /\ Alternates(settings.type, a, settings.minLength))
            => \E i \in 1..Len(results) :
                   /\ results[i].region.address <= a
                   /\ a < results[i].region.address + results[i].region.size

\* C28: in UTF16LE mode (mirrored for UTF16BE) every occurrence searchStrings reports has a byte
\* of an enabled class at each even offset and 0x00 at each odd offset, and every address of
\* the range from which at least minLength bytes form such a sequence lies inside a reported
\* occurrence.
C28_UTF16Strings ==
    (/\ mode = "Strings" /\ pc = "done"
     /\ settings.type \in {"UTF16LE", "UTF16BE"}
     /\ ~settings.nullTermination)
        => UTF16Sound /\ UTF16Covered

\* the byte right behind the region lies in the search range and is 0x00
NullTerminated(region) ==
    /\ region.address + region.size < ReaderEnd
    /\ data[provider][region.address + region.size + 1] = 0

\* C29: with nullTermination set, searchStrings emits a run only if the byte that follows it
\* is 0x00: no run that is ended by another invalid byte, and no run that reaches the end of
\* the range, is among the results.
C29_NullTermination ==
    (mode = "Strings" /\ settings.nullTermination) =>
        \A i \in 1..Len(results) : NullTerminated(results[i].region)

\* the patterns "a" and "a."
RegexPatterns == {<<97>>, <<97, 46>>}

\* the pattern "(", which std::regex rejects
InvalidPatterns == {<<40>>}

\* std::regex regex(pattern) does not throw std::regex_error: among the patterns of literals,
\* dots and parentheses, those without an opening parenthesis that is never closed
RegexValid(pattern) == \A i \in 1..Len(pattern) : pattern[i] # 40

\* one pattern character against one byte: "." is any character but a line terminator, any
\* other pattern character of RegexPatterns is a literal
RegexAtom(c, byte) == IF c = 46 THEN byte \notin {10, 13} ELSE c = byte

\* std::regex_match(string, regex) for a pattern of literals and dots
regex_match(string, pattern) ==
    /\ Len(string) = Len(pattern)
    /\ \A i \in 1..Len(pattern) : RegexAtom(pattern[i], string[i])

\* std::regex_search(string, regex) for a pattern of literals and dots
regex_search(string, pattern) ==
    \E i \in 1..(Len(string) - Len(pattern) + 1) :
        regex_match(SubSeq(string, i, i + Len(pattern) - 1), pattern)

\* provider->read(occurrence.region.getStartAddress(), string.data(), size)
ReadString(region) == [k \in 1..region.size |-> ReadByte(region.address + k - 1)]

\* the test of the loop of searchRegex
RegexTest(st, string) ==
    IF st.fullMatch THEN regex_match(string, st.pattern) ELSE regex_search(string, st.pattern)

\* searchStrings has returned to searchRegex: stringOccurrences is set, result is empty
\* and std::regex regex(settings.pattern) is constructed or throws
searchRegexReturned ==
    /\ mode = "Regex" /\ pc = "returned"
    /\ stringOccurrences' = results
    /\ occurrenceIndex' = 0
    /\ results' = <<>>
    /\ pc' = IF RegexValid(settings.pattern) THEN "regex" ELSE "failed"
    /\ UNCHANGED <<data, provider, searchRegion, mode, settings, it, progress, matchedBytes,
                   countedCharacters, startAddress, bytes, validBytes, address, shouldInterrupt,
                   parseVars, sessionVars>>

\* one iteration of the loop over stringOccurrences; the loop exit returns the result
searchRegex ==
    /\ mode = "Regex" /\ pc = "regex"
    /\ IF occurrenceIndex = Len(stringOccurrences)
       THEN /\ pc' = "done"
            /\ UNCHANGED <<results, occurrenceIndex>>
       ELSE IF shouldInterrupt
       THEN /\ pc' = "interrupted"
            /\ UNCHANGED <<results, occurrenceIndex>>
       ELSE LET occurrence == stringOccurrences[occurrenceIndex + 1] IN
            /\ pc' = "regex"
            /\ occurrenceIndex' = occurrenceIndex + 1
            /\ results' = IF RegexTest(settings, ReadString(occurrence.region))
                          THEN Append(results, occurrence)
                          ELSE results
    /\ UNCHANGED <<data, provider, searchRegion, mode, settings, it, progress, matchedBytes,
                   countedCharacters, startAddress, bytes, validBytes, address, shouldInterrupt,
                   stringOccurrences, parseVars, sessionVars>>

InitRegex ==
    /\ \E d \in SeqsUpTo(StringAlphabet, MaxData) : data = [OtherData EXCEPT !["P"] = d]
    /\ searchRegion \in RegionsOf(Len(data["P"]))
    /\ \E n \in 1..MaxMinLength, z \in BOOLEAN, type \in StringTypes,
          pattern \in RegexPatterns \cup InvalidPatterns, fullMatch \in BOOLEAN :
          settings = [minLength |-> n, nullTermination |-> z, type |-> type,
                      pattern |-> pattern, fullMatch |-> fullMatch]
    /\ provider = "P"
    /\ mode = "Regex"
    /\ pc = "start"
    /\ it = 0 /\ results = <<>> /\ progress = 0
    /\ matchedBytes = 0 /\ countedCharacters = 0 /\ startAddress = 0
    /\ bytes = <<>> /\ validBytes = 0 /\ address = 0
    /\ shouldInterrupt = FALSE
    /\ stringOccurrences = <<>> /\ occurrenceIndex = 0
    /\ ParseIdle
    /\ SessionIdle

NextRegex == searchStringsBegin \/ searchStrings \/ searchRegexReturned \/ searchRegex

\* one regex search over any range of any provider contents
SpecRegex == InitRegex /\ [][NextRegex]_vars

\* one pass of searchStrings over the search range, as a function: the occurrences the for
\* loop appends from address a on, the run under way starting at start with counted bytes
RECURSIVE StringsPass(_, _, _, _, _, _)
StringsPass(st, type, a, start, counted, found) ==
    IF a = ReaderEnd THEN found
    ELSE LET byte == ReadByte(a)
             validChar == ValidByte(st, type, counted, byte)
             after == IF validChar THEN counted + 1 ELSE counted
         IN  IF ~validChar \/ start + after = ReaderEnd
             THEN StringsPass(st, type, a + 1, start + after + 1, 0,
                      IF after >= st.minLength /\ ~(st.nullTermination /\ byte # 0)
                      THEN Append(found, Occurrence(start, after, StringDecodeType(type),
                                                    StringEndian(type)))
                      ELSE found)
             ELSE StringsPass(st, type, a + 1, start, after, found)

\* what searchStrings returns for the search range: a combined type is its ASCII pass followed
\* by its UTF-16 pass
StringsReturn(st) ==
    IF IsCombined(st.type)
    THEN StringsPass(st, "ASCII", searchRegion.address, searchRegion.address, 0, <<>>) \o
         StringsPass(st, IF st.type = "ASCII_UTF16BE" THEN "UTF16BE" ELSE "UTF16LE",
                     searchRegion.address, searchRegion.address, 0, <<>>)
    ELSE StringsPass(st, st.type, searchRegion.address, searchRegion.address, 0, <<>>)

\* the occurrences of the sequence whose bytes pass the regex test, in their order
PassingRegex(occurrences) ==
    LET Passes(occurrence) == RegexTest(settings, ReadString(occurrence.region))
    IN  SelectSeq(occurrences, Passes)

\* C30: searchRegex returns exactly the occurrences, in the same order, that searchStrings
\* returns for the same range, minLength, nullTermination and encoding with every character
\* class enabled and whose bytes pass the regex test: a whole-string match with fullMatch, a
\* substring search without it.
C30_RegexFiltersStrings ==
    (mode = "Regex" /\ pc = "done") =>
        results = PassingRegex(StringsReturn(
                      StringsSettings(settings.minLength, settings.nullTermination,
                                      settings.type, CharClasses)))

\* a regex search with fullMatch has kept one candidate and dropped another
C30_Witness ==
    /\ mode = "Regex" /\ pc = "done"
    /\ settings.fullMatch
    /\ Len(results) >= 1
    /\ Len(results) < Len(stringOccurrences)

-----------------------------------------------------------------------------
(* Inputs a value search rejects *)

\* the min input or the max input does not parse for the type, or their widths differ
ValueInputsRejected ==
    LET min == parseNumericValueInput(settings.inputMin, settings.type)
        max == parseNumericValueInput(settings.inputMax, settings.type)
    IN  ~min.valid \/ ~max.valid \/ min.size # max.size

\* C32: when the min input or the max input fails to parse for the selected type, or their
\* byte widths differ, searchValue returns an empty result and has evaluated no window: it has
\* read no byte of the range.
C32_RejectedValueInputs ==
    (mode = "Value" /\ pc # "start" /\ ValueInputsRejected) =>
        /\ pc = "done"
        /\ results = <<>>
        /\ it = searchRegion.address /\ validBytes = 0 /\ progress = 0

\* a value search with an unparsable min input has returned over a range of several bytes
C32_Witness ==
    /\ mode = "Value" /\ pc = "done"
    /\ ~parseNumericValueInput(settings.inputMin, settings.type).valid
    /\ parseNumericValueInput(settings.inputMax, settings.type).valid
    /\ searchRegion.size > 1
    /\ results = <<>>

-----------------------------------------------------------------------------
(* Sorting the table of results *)

SortColumns == {"offset", "size", "value"}

SortDirections == {"Ascending", "Descending"}

\* std::string operator<: lexicographic order of the bytes
StringLess(a, b) ==
    \E k \in 1..Len(b) :
        /\ \A j \in 1..(k - 1) : j <= Len(a) /\ a[j] = b[j]
        /\ k > Len(a) \/ a[k] < b[k]

\* the comparison the view hands to std::sort
SortCompare(specs, p, left, right) ==
    CASE specs.column = "offset" ->
            IF specs.direction = "Ascending"
            THEN left.region.address > right.region.address
            ELSE left.region.address < right.region.address
      [] specs.column = "size" ->
            IF specs.direction = "Ascending"
            THEN left.region.size > right.region.size
            ELSE left.region.size < right.region.size
      [] specs.column = "value" ->
            IF specs.direction = "Ascending"
            THEN StringLess(decodeValue(p, right), decodeValue(p, left))
            ELSE StringLess(decodeValue(p, left), decodeValue(p, right))
      [] OTHER -> FALSE

\* the rearrangements of a sequence
Rearrangements(seq) ==
    {[i \in 1..Len(seq) |-> seq[f[i]]] :
        f \in {g \in [1..Len(seq) -> 1..Len(seq)] :
                  \A i, j \in 1..Len(seq) : g[i] = g[j] => i = j}}

\* std::sort(first, last, comp): a rearrangement in which no element is before one that comp
\* puts before it; which one of several, std::sort does not say
StdSort(specs, p, seq) ==
    {sorted \in Rearrangements(seq) :
        \A i, j \in 1..Len(sorted) : i < j => ~SortCompare(specs, p, sorted[j], sorted[i])}

\* a column header is clicked: the sort specs are dirty and the working copy of the selected
\* provider is sorted in this frame
tableSorted(column, direction) ==
    /\ [column |-> column, direction |-> direction] # sortSpecs
    /\ sortSpecs' = [column |-> column, direction |-> direction]
    /\ \E sorted \in StdSort(sortSpecs', currentProvider, WorkingCopy(currentProvider)) :
          m_sortedOccurrences' = [m_sortedOccurrences EXCEPT ![currentProvider] =
              Vector(sorted \o SubSeq(@.slots, @.size + 1, Len(@.slots)), @.size)]
    /\ untouched' = FALSE
    /\ UNCHANGED <<engineVars, input, inputType, parsed, m_searchSettings, m_settingsValid,
                   selection, popupFind, findLog, query, eventVars, currentProvider,
                   m_foundOccurrences,
                   m_occurrenceTree, m_currFilter, m_decodeSettings, filterTasks, beforeSearch,
                   submittedProvider, maxValue, filterLog>>

NextSort ==
    \/ \E column \in SortColumns, direction \in SortDirections : tableSorted(column, direction)
    \/ \E text \in FilterTexts : filterEdited(text)
    \/ \E k \in 1..MaxFilterTasks : filterTaskBegin(k)
    \/ \E k \in 1..MaxFilterTasks : filterTaskElement(k)
    \/ \E k \in 1..MaxFilterTasks : filterTaskErase(k)

\* the table of a completed search is sorted and filtered
SpecSort == InitFilter /\ [][NextSort]_vars

\* the key of a is not above the key of b
KeyNotAbove(column, p, a, b) ==
    CASE column = "offset" -> a.region.address <= b.region.address
      [] column = "size" -> a.region.size <= b.region.size
      [] column = "value" -> ~StringLess(decodeValue(p, b), decodeValue(p, a))

\* the sequence is in non-decreasing order of the key, or in non-increasing order
InOrder(specs, p, seq) ==
    \A i, j \in 1..Len(seq) :
        i < j => IF specs.direction = "Ascending"
                 THEN KeyNotAbove(specs.column, p, seq[i], seq[j])
                 ELSE KeyNotAbove(specs.column, p, seq[j], seq[i])

\* C33: sorting the working copy by start address, size or decoded value leaves it in
\* non-decreasing order of that key for the direction ascending, in non-increasing order for
\* descending, and the sorted working copy is a permutation of the one before the sort.
C33_SortOrders ==
    [][ sortSpecs' # sortSpecs =>
          /\ InOrder(sortSpecs', currentProvider, WorkingCopy(currentProvider)')
          /\ WorkingCopy(currentProvider)' \in Rearrangements(WorkingCopy(currentProvider)) ]_vars

-----------------------------------------------------------------------------
(* The frame of Reset *)

\* a step of the Reset button: no search task is running, and the found list of the selected
\* provider, which held occurrences, is empty afterwards
ResetStep ==
    /\ ~SearchRunning
    /\ m_foundOccurrences[currentProvider] # <<>>
    /\ m_foundOccurrences'[currentProvider] = <<>>

\* C34: Reset empties the found list, the working copy and the index of the currently active
\* provider and leaves the found list, working copy, index and filter text of every other
\* provider unchanged.
C34_ResetFrame ==
    [][ ResetStep =>
          /\ WorkingCopy(currentProvider)' = <<>>
          /\ m_occurrenceTree'[currentProvider] = <<>>
          /\ currentProvider' = currentProvider
          /\ \A p \in Providers \ {currentProvider} :
                /\ m_foundOccurrences'[p] = m_foundOccurrences[p]
                /\ m_sortedOccurrences'[p] = m_sortedOccurrences[p]
                /\ m_occurrenceTree'[p] = m_occurrenceTree[p]
                /\ m_currFilter'[p] = m_currFilter[p] ]_vars

\* the results of P were reset while Q holds the results of its own search
C34_Witness ==
    /\ pc = "idle"
    /\ currentProvider = "P"
    /\ m_foundOccurrences["P"] = <<>>
    /\ WorkingCopy("P") = <<>>
    /\ m_sortedOccurrences["P"].slots # <<>>
    /\ m_occurrenceTree["P"] = <<>>
    /\ m_foundOccurrences["Q"] # <<>>
    /\ WorkingCopy("Q") = m_foundOccurrences["Q"]
    /\ Len(m_occurrenceTree["Q"]) = Len(m_foundOccurrences["Q"])

-----------------------------------------------------------------------------
(* The working copy and the filter text *)

\* the texts of the filter input: empty, "c", "b" and "ab"
EditedTexts == {<<>>, <<99>>, <<98>>, <<97, 98>>}

NextFilterEdits ==
    \/ \E text \in EditedTexts : filterEdited(text)
    \/ \E k \in 1..MaxFilterTasks : filterTaskBegin(k)
    \/ \E k \in 1..MaxFilterTasks : filterTaskElement(k)
    \/ \E k \in 1..MaxFilterTasks : filterTaskErase(k)
    \/ resetResults

\* the filter text is lengthened, shortened and replaced, and the results are reset
SpecFilterEdits == InitFilter /\ [][NextFilterEdits]_vars

\* C35: whenever neither a search task nor a filter task is running, the working copy of a
\* provider holds exactly the occurrences of its found list whose decoded value contains the
\* provider's current filter text, whatever the edits of the text were: lengthening,
\* shortening, or replacing it by another text of the same length.
C35_WorkingCopyIsFilteredFound ==
    (~SearchRunning /\ filterTasks = <<>>) =>
        \A p \in Providers :
            WorkingCopy(p) = Containing(m_foundOccurrences[p], p, m_currFilter[p])

-----------------------------------------------------------------------------
(* The occurrences and the search range *)

InitAllEngines == InitEngines \/ InitRegex

NextAllEngines == NextEngines \/ NextRegex

\* one search of any of the five engines over any range of any provider contents
SpecAllEngines == InitAllEngines /\ [][NextAllEngines]_vars

\* the occurrence has a byte at least, and its first and last byte are bytes of the range
InsideRange(occurrence) ==
    /\ occurrence.region.size >= 1
    /\ occurrence.region.address >= searchRegion.address
    /\ occurrence.region.address + occurrence.region.size - 1
          <= searchRegion.address + searchRegion.size - 1

\* the occurrences the engine has emitted so far: its results, and for searchRegex the
\* strings its call of searchStrings returned
Emitted == {results[i] : i \in 1..Len(results)}
              \cup {stringOccurrences[i] : i \in 1..Len(stringOccurrences)}

\* C36: every occurrence emitted by any of the five engines lies entirely inside the search
\* range and has size at least 1; an occurrence of searchStrings has size at least
\* minLength.
C36_OccurrencesInsideRange ==
    \A occurrence \in Emitted :
        /\ InsideRange(occurrence)
        /\ mode \in {"Strings", "Regex"} => occurrence.region.size >= StringsArguments.minLength

\* a strings search over a range that is not the whole provider has returned a run that
\* starts with the range and a run that ends with it
C36_Witness ==
    /\ pc = "done"
    /\ mode = "Strings"
    /\ searchRegion.address > 0
    /\ ReaderEnd < Len(data[provider])
    /\ Len(results) >= 1
    /\ results[1].region.address = searchRegion.address
    /\ results[Len(results)].region.address + results[Len(results)].region.size = ReaderEnd

-----------------------------------------------------------------------------
(* Termination of the rewinding scans *)

InitScans == InitSequence \/ InitBinaryPattern

NextScans == NextSequence \/ NextBinaryPattern

\* one search by searchSequence or searchBinaryPattern that is not cancelled: the thread of
\* the task keeps executing the loop until the function returns
SpecScansFair == InitScans /\ [][NextScans]_vars /\ WF_vars(NextScans)

\* the address at which the match attempt under way started
AttemptStart == it - matchedBytes

\* C37: on every finite range and absent cancellation, searchSequence and searchBinaryPattern
\* terminate: the scan position rewinds after a partial mismatch and after each full match,
\* but the start address of the match attempt never decreases and is higher for every new
\* attempt, so the end of the range is reached.
C37_ScansTerminate ==
    /\ <>(pc = "done")
    /\ [][ (pc = "scan" /\ pc' = "scan") =>
              /\ AttemptStart' >= AttemptStart
              /\ matchedBytes' = 0 => AttemptStart' > AttemptStart ]_vars

\* searchBinaryPattern has returned an occurrence of a two-byte pattern whose first entry also
\* matches the byte before the occurrence: the attempt that started there was rewound
C37_Witness ==
    /\ pc = "done"
    /\ mode = "BinaryPattern"
    /\ Len(settings.pattern) = 2
    /\ Len(results) >= 1
    /\ results[1].region.address > searchRegion.address
    /\ BitAnd(ReadByte(results[1].region.address - 1), settings.pattern[1].mask)
          = settings.pattern[1].value

-----------------------------------------------------------------------------
(* The find popup of the hex editor *)

\* the most triggers of one popup
MaxTriggers == 3

\* the texts of the popup's input: empty, one 0x00 byte, "a"
PopupInputs == {<<>>, <<0>>, <<97>>}

\* what a frame of the popup brings: nothing, an edit of the input, Enter in the input, or a
\* click on the search, up or down button
PopupEvents == {"none", "edit", "enter", "search", "up", "down"}

\* m_searchTask.isRunning(): the task the holder refers to has not ended
FindRunning(tasks) == \E k \in 1..Len(tasks) : tasks[k].held

\* the widget can report the event in this frame: the buttons are disabled while the task
\* runs, up and down also without a search position and at the end they reached
EventEnabled(pf, event) ==
    CASE event = "search" -> ~FindRunning(pf.tasks)
      [] event = "up" -> /\ ~FindRunning(pf.tasks)
                         /\ pf.hasSearchPosition
                         /\ ~(pf.m_reachedEnd /\ pf.m_backwards)
      [] event = "down" -> /\ ~FindRunning(pf.tasks)
                           /\ pf.hasSearchPosition
                           /\ ~(pf.m_reachedEnd /\ ~pf.m_backwards)
      [] OTHER -> TRUE

\* the event sets m_shouldSearch
IsTrigger(pf, event) ==
    \/ event \in {"search", "up", "down"}
    \/ event = "enter" /\ pf.m_input # <<>>

\* the input and drawButtons of the string tab
AfterEvent(pf, event, text) ==
    LET handled ==
            CASE event = "edit" -> [pf EXCEPT !.m_input = text]
              [] event = "enter" ->
                    IF pf.m_input # <<>>
                    THEN [pf EXCEPT !.m_shouldSearch = TRUE, !.m_backwards = FALSE]
                    ELSE pf
              [] event = "search" ->
                    [pf EXCEPT !.m_shouldSearch = TRUE, !.m_backwards = FALSE,
                               !.m_reachedEnd = FALSE, !.hasSearchPosition = FALSE]
              [] event = "up" ->
                    [pf EXCEPT !.m_shouldSearch = TRUE, !.m_backwards = TRUE,
                               !.m_reachedEnd = FALSE]
              [] event = "down" ->
                    [pf EXCEPT !.m_shouldSearch = TRUE, !.m_backwards = FALSE,
                               !.m_reachedEnd = FALSE]
              [] OTHER -> pf
    IN  [handled EXCEPT !.m_requestFocus = FALSE]

\* the bytes of m_input without a 0x00 at their end, if m_shouldSearch; empty otherwise
PopupSearchSequence(pf) ==
    IF ~pf.m_shouldSearch THEN <<>>
    ELSE IF pf.m_input # <<>> /\ pf.m_input[Len(pf.m_input)] = 0
         THEN SubSeq(pf.m_input, 1, Len(pf.m_input) - 1)
         ELSE pf.m_input

\* a find task is created whenever a search is wanted, whether one is running or not
FindTaskWantedAlways(pf) == PopupSearchSequence(pf) # <<>> /\ pf.m_shouldSearch

\* !m_searchTask.isRunning() && !searchSequence.empty() && m_shouldSearch
FindTaskWanted(pf) ==
    ~FindRunning(pf.tasks) /\ PopupSearchSequence(pf) # <<>> /\ pf.m_shouldSearch

\* TaskManager::createTask("hex.builtin.common.processing", ...) for the trigger
FindTask(trigger) == [pc |-> "created", held |-> TRUE, trigger |-> trigger]

\* one frame of PopupFind::draw
popupFindDraw(event, text) ==
    /\ EventEnabled(popupFind, event)
    /\ event = "edit" => text # popupFind.m_input
    /\ event # "edit" => text = popupFind.m_input
    /\ IsTrigger(popupFind, event) => findLog.trigger < MaxTriggers
    /\ LET drawn == AfterEvent(popupFind, event, text)
           trigger == IF IsTrigger(popupFind, event) THEN findLog.trigger + 1
                      ELSE findLog.trigger
       IN  IF FindTaskWanted(drawn)
           THEN /\ popupFind' = [drawn EXCEPT
                       !.tasks = Append(Released(@), FindTask(trigger))]
                /\ findLog' = [trigger |-> trigger, started |-> Append(findLog.started, trigger)]
           ELSE /\ popupFind' = drawn
                /\ findLog' = [findLog EXCEPT !.trigger = trigger]
    /\ UNCHANGED <<input, inputType, parsed, m_searchSettings, m_settingsValid, selection,
                   sortSpecs, query, eventVars, engineVars, sessionVars>>

\* the subscription of EventRegionSelected: m_searchPosition gets a value
popupRegionSelected ==
    /\ ~popupFind.hasSearchPosition
    /\ popupFind' = [popupFind EXCEPT !.hasSearchPosition = TRUE]
    /\ UNCHANGED <<input, inputType, parsed, m_searchSettings, m_settingsValid, selection,
                   sortSpecs, findLog, query, eventVars, engineVars, sessionVars>>

\* the retry loop of the task: an occurrence is found, or m_reachedEnd is set
findTaskSearch(k, found) ==
    /\ k \in DOMAIN popupFind.tasks
    /\ popupFind.tasks[k].pc = "created"
    /\ popupFind' = [popupFind EXCEPT !.tasks[k].pc = "searched",
                                      !.m_reachedEnd = IF found THEN @ ELSE TRUE]
    /\ UNCHANGED <<input, inputType, parsed, m_searchSettings, m_settingsValid, selection,
                   sortSpecs, findLog, query, eventVars, engineVars, sessionVars>>

\* the last statements of the task body
findTaskBodyEnd(k) ==
    /\ k \in DOMAIN popupFind.tasks
    /\ popupFind.tasks[k].pc = "searched"
    /\ popupFind' = [popupFind EXCEPT !.tasks[k].pc = "returned",
                                      !.m_shouldSearch = FALSE,
                                      !.m_requestFocus = TRUE]
    /\ UNCHANGED <<input, inputType, parsed, m_searchSettings, m_settingsValid, selection,
                   sortSpecs, findLog, query, eventVars, engineVars, sessionVars>>

\* the body has returned: the task is no longer running
findTaskFinished(k) ==
    /\ k \in DOMAIN popupFind.tasks
    /\ popupFind.tasks[k].pc = "returned"
    /\ popupFind' = [popupFind EXCEPT !.tasks = RemoveAt(@, k)]
    /\ UNCHANGED <<input, inputType, parsed, m_searchSettings, m_settingsValid, selection,
                   sortSpecs, findLog, query, eventVars, engineVars, sessionVars>>

\* the most find tasks the model follows at a time
MaxFindTasks == 2

NextFind ==
    \/ \E event \in PopupEvents, text \in PopupInputs : popupFindDraw(event, text)
    \/ popupRegionSelected
    \/ \E k \in 1..MaxFindTasks, found \in BOOLEAN : findTaskSearch(k, found)
    \/ \E k \in 1..MaxFindTasks : findTaskBodyEnd(k)
    \/ \E k \in 1..MaxFindTasks : findTaskFinished(k)

\* the frames of an open find popup and its tasks
SpecFind == InitSession /\ [][NextFind]_vars

\* the body of a find task executes its last statements
FindBodyEnds ==
    \E k \in 1..Len(popupFind.tasks) :
        /\ popupFind.tasks[k].pc = "searched"
        /\ Len(popupFind.tasks') = Len(popupFind.tasks)
        /\ popupFind.tasks'[k].pc = "returned"

\* C38: in the find popup at most one find task runs at a time and each trigger starts at most
\* one task: a task is created only when no find task is running, and when the body of a task
\* finishes m_shouldSearch is false, so no second task is run for the same trigger.
C38_OneFindTask ==
    /\ [](Len(popupFind.tasks) <= 1)
    /\ [](\A i, j \in 1..Len(findLog.started) :
             i # j => findLog.started[i] # findLog.started[j])
    /\ [][ Len(popupFind.tasks') > Len(popupFind.tasks) => popupFind.tasks = <<>> ]_vars
    /\ [][ FindBodyEnds => ~popupFind.m_shouldSearch' ]_vars

\* tasks ran for the first and the third trigger and have ended; the second trigger came
\* while the first task was running
C38_Witness ==
    /\ findLog.started = <<1, 3>>
    /\ popupFind.tasks = <<>>
    /\ ~popupFind.m_shouldSearch

-----------------------------------------------------------------------------
(* The entries of a parsed binary pattern *)

\* some byte matches the entry
Satisfiable(entry) == \E b \in 0..255 : BitAnd(b, entry.mask) = entry.value

\* C39: every entry of a pattern returned by parseBinaryPatternString satisfies
\* (value & mask) == value, so for each entry at least one byte b satisfies
\* (b & mask) == value.
C39_EntriesSatisfiable ==
    \A i \in 1..Len(parsed) :
        /\ BitAnd(parsed[i].value, parsed[i].mask) = parsed[i].value
        /\ Satisfiable(parsed[i])

\* the text ?1D? was parsed into an entry with a free high nibble and one with a free low nibble
C39_Witness ==
    /\ input = <<63, 49, 68, 63>>
    /\ parsed = <<BinaryPattern(15, 1), BinaryPattern(240, 208)>>

====
